---- MODULE Spec2Model ----
(***************************************************************************)
(* Model of the pinia data store (src/src/stores/dataStore.ts) and of the  *)
(* per-wallet pool breakdown of the analysis view (analyzePoolPositions).  *)
(*                                                                         *)
(* The store holds two raw documents.  Every aggregate is a Vue computed,  *)
(* i.e. a pure function of the two raw documents, and is modelled as an    *)
(* operator over the state variables.                                      *)
(*                                                                         *)
(* JavaScript values are modelled as records [t, v]: t is the run-time     *)
(* type tag and v an integer payload.  JavaScript numbers are modelled as  *)
(* records [nan, v] so that NaN and its arithmetic are explicit.  All      *)
(* amounts of the inputs are integers, on which double arithmetic is exact.*)
(***************************************************************************)
EXTENDS Integers, Sequences, FiniteSets, TLC

VARIABLES
    balancesFile,         \* parsed content of the chosen balances file
    powerVotingFile,      \* parsed content of the chosen power voting file
    rawBalancesData,      \* dataStore.rawBalancesData
    rawPowerVotingData,   \* dataStore.rawPowerVotingData
    availableSnapshots,   \* the snapshots of the manifest, each with what the server returns
    searchAddress,        \* text of the address field
    addressSearchResults, \* the result list of the address search
    isSearchingAddress,   \* flag shown while a search runs
    searchAwaits,         \* 0, or the index of the snapshot whose load the search awaits
    addressToSearch,      \* the search's own copy of the address
    snapshotStats,        \* the rows of the snapshot table
    statsAwaits,          \* 0, or the index of the snapshot whose load the table awaits
    selectedComparisonSnapshot, \* date chosen for the comparison, "" when none
    comparisonSnapshot,   \* dataStore: the snapshot the current dataset is compared with
    runningSearches,      \* the invocations of the address search that await a load
    inquirerFile,         \* server: content of the generator's src/utils/inquirer.ts
    backupFile,           \* server: content of src/utils/inquirer.ts.backup
    serverRunning,        \* server: the Node process is alive
    requests,             \* server: the /api/generate requests, each with its closure
    isGenerating,         \* generation view: flag that disables the button
    generationError,      \* generation view: the error message shown, "" when none
    generationAwaits,     \* generation view: what handleGenerate awaits, "" when not running
    generationOptions,    \* generation view: the chosen tasks and whether the form is filled
    invocations,          \* generation view: calls of api.generate per task in this run
    reports               \* generation view: what each invocation of this run reported

storeVars == <<balancesFile, powerVotingFile, rawBalancesData, rawPowerVotingData>>
searchVars == <<availableSnapshots, searchAddress, addressSearchResults,
                isSearchingAddress, searchAwaits, addressToSearch, runningSearches>>
comparisonVars == <<snapshotStats, statsAwaits, selectedComparisonSnapshot,
                    comparisonSnapshot>>
serverVars == <<inquirerFile, backupFile, serverRunning, requests>>
generationVars == <<isGenerating, generationError, generationAwaits, generationOptions,
                    invocations, reports>>
generateVars == <<serverVars, generationVars>>
vars == <<storeVars, searchVars, comparisonVars, generateVars>>

-----------------------------------------------------------------------------
(* Raw JavaScript values found in the uploaded documents.                  *)

Undef == [t |-> "undef", v |-> 0]          \* field absent
N(n) == [t |-> "num", v |-> n]             \* number n
S(n) == [t |-> "str", v |-> n]             \* the decimal string of n
Bad == [t |-> "bad", v |-> 0]              \* non-empty, non-numeric string
True == [t |-> "bool", v |-> 1]
False == [t |-> "bool", v |-> 0]
Addr(k) == [t |-> "addr", v |-> k]         \* a pool address string

(* JavaScript numbers produced by the computations.                        *)
Num(n) == [nan |-> FALSE, v |-> n]
NaN == [nan |-> TRUE, v |-> 0]

\* ToBoolean: undefined, 0, false are falsy; any non-empty string is truthy
Truthy(x) ==
    CASE x.t = "undef" -> FALSE
      [] x.t = "num" -> x.v # 0
      [] x.t = "bool" -> x.v = 1
      [] OTHER -> TRUE

\* a || b on raw values
OrElse(x, y) == IF Truthy(x) THEN x ELSE y

\* parseFloat(String(x))
parseFloat(x) ==
    CASE x.t = "num" -> Num(x.v)
      [] x.t = "str" -> Num(x.v)
      [] OTHER -> NaN

\* x || 0 on numbers: NaN and 0 are falsy
OrZero(x) == IF x.nan \/ x.v = 0 THEN Num(0) ELSE x

Add(a, b) == IF a.nan \/ b.nan THEN NaN ELSE Num(a.v + b.v)
Sub(a, b) == IF a.nan \/ b.nan THEN NaN ELSE Num(a.v - b.v)
MathMax(a, b) == IF a.nan \/ b.nan THEN NaN ELSE Num(IF a.v >= b.v THEN a.v ELSE b.v)
MathMin(a, b) == IF a.nan \/ b.nan THEN NaN ELSE Num(IF a.v <= b.v THEN a.v ELSE b.v)
\* comparisons with NaN are false
Gt(a, b) == ~a.nan /\ ~b.nan /\ a.v > b.v
Leq(a, b) == ~a.nan /\ ~b.nan /\ a.v <= b.v
Geq(a, b) == ~a.nan /\ ~b.nan /\ a.v >= b.v

RECURSIVE GCD(_, _)
GCD(a, b) == IF b = 0 THEN a ELSE GCD(b, a % b)

\* an exact quotient n/d (d > 0, n >= 0), kept in lowest terms
Ratio(n, d) ==
    LET g == GCD(n, d)
    IN  [nan |-> FALSE, num |-> n \div g, den |-> d \div g]
RatioNaN == [nan |-> TRUE, num |-> 0, den |-> 1]

\* a / b for b > 0 and a >= 0 or NaN
Divide(a, b) == IF a.nan \/ b.nan THEN RatioNaN ELSE Ratio(a.v, b.v)

\* String.prototype.toLowerCase on the wallet addresses and the exchange names
\* of the inputs
toLowerCase(s) ==
    CASE s = "0xA" -> "0xa"
      [] s = "0xB" -> "0xb"
      [] s = "SushiSwap" -> "sushiswap"
      [] OTHER -> s

-----------------------------------------------------------------------------
(* Sequence helpers standing for Array.prototype.map / filter / reduce.    *)

RECURSIVE Flatten(_)
Flatten(ss) == IF ss = <<>> THEN <<>> ELSE Head(ss) \o Flatten(Tail(ss))

RECURSIVE SumNum(_)
SumNum(s) == IF s = <<>> THEN Num(0) ELSE Add(Head(s), SumNum(Tail(s)))

-----------------------------------------------------------------------------
(* The uploaded documents, as JSON.parse returns them: null, a list of    *)
(* rows, an object with a result member, another object, or a scalar.      *)

Null == [shape |-> "null", rows |-> <<>>]
Bare(rows) == [shape |-> "bare", rows |-> rows]
Missing == [shape |-> "undef", rows |-> <<>>]         \* member absent
Text == [shape |-> "text", rows |-> <<>>]             \* a non-empty string or true
Zero == [shape |-> "zero", rows |-> <<>>]             \* 0, "" or false
Object == [shape |-> "object", rows |-> <<>>]         \* an object without result
\* { result: { balances: b, powerVoting: p } }
Wrapper(b, p) ==
    [shape |-> "wrapper", rows |-> <<>>, result |-> [balances |-> b, powerVoting |-> p]]
WrappedBalances(rows) == Wrapper(Bare(rows), Missing)
WrappedPowerVoting(rows) == Wrapper(Missing, Bare(rows))

\* ToBoolean of a document value
TruthyValue(d) == d.shape \notin {"null", "undef", "zero"}

\* Array.isArray(data) ? data : []
rowsOf(data) == IF data.shape = "bare" THEN data.rows ELSE <<>>

\* the row list read off the document itself, whatever it nests
balancesWithoutUnwrap ==
    IF ~TruthyValue(rawBalancesData) THEN <<>> ELSE rowsOf(rawBalancesData)

\* balances computed
balances ==
    IF ~TruthyValue(rawBalancesData) THEN <<>>
    ELSE LET nested == IF rawBalancesData.shape = "wrapper"
                       THEN rawBalancesData.result.balances ELSE Missing
         IN  rowsOf(IF TruthyValue(nested) THEN nested ELSE rawBalancesData)

\* powerVoting computed
powerVoting ==
    IF ~TruthyValue(rawPowerVotingData) THEN <<>>
    ELSE LET nested == IF rawPowerVotingData.shape = "wrapper"
                       THEN rawPowerVotingData.result.powerVoting ELSE Missing
         IN  rowsOf(IF TruthyValue(nested) THEN nested ELSE rawPowerVotingData)

-----------------------------------------------------------------------------
(* Amount resolution of a balance row.                                     *)

\* parseFloat(String(b.totalBalanceREG || b.totalBalance || 0))
balanceAmount(b) ==
    parseFloat(OrElse(OrElse(b.totalBalanceREG, b.totalBalance), N(0)))

\* the values of balanceStats: one per row, NaN rows filtered out
balanceStatsValues ==
    SelectSeq([i \in DOMAIN balances |-> balanceAmount(balances[i])],
              LAMBDA x : ~x.nan)

-----------------------------------------------------------------------------
(* Statistics.  Quotients are exact rationals [nan, num, den] in lowest   *)
(* terms; a square root is kept exact: a rational when the radicand is a   *)
(* square, the radicand itself otherwise.                                  *)

LCM(a, b) == (a \div GCD(a, b)) * b

RatAdd(a, b) ==
    LET l == LCM(a.den, b.den)
    IN  Ratio(a.num * (l \div a.den) + b.num * (l \div b.den), l)

RatSub(a, b) ==
    LET l == LCM(a.den, b.den)
    IN  Ratio(a.num * (l \div a.den) - b.num * (l \div b.den), l)

RatMul(a, b) == Ratio(a.num * b.num, a.den * b.den)

RECURSIVE SumRat(_)
SumRat(s) == IF s = <<>> THEN Ratio(0, 1) ELSE RatAdd(Head(s), SumRat(Tail(s)))

\* the largest k in lo..hi with k * k <= n
RECURSIVE FloorSqrt(_, _, _)
FloorSqrt(lo, hi, n) ==
    IF lo = hi THEN lo
    ELSE LET mid == (lo + hi + 1) \div 2
         IN  IF mid <= n \div mid THEN FloorSqrt(mid, hi, n) ELSE FloorSqrt(lo, mid - 1, n)

IsSquare(n) == LET k == FloorSqrt(0, n, n) IN k * k = n

\* Math.sqrt of a rational r >= 0
MathSqrt(r) ==
    IF IsSquare(r.num) /\ IsSquare(r.den)
    THEN [surd |-> FALSE, num |-> FloorSqrt(0, r.num, r.num), den |-> FloorSqrt(0, r.den, r.den)]
    ELSE [surd |-> TRUE, num |-> r.num, den |-> r.den]

\* a.v <= b.v first: the comparator (a, b) => a - b on numbers
RECURSIVE insertAscending(_, _)
insertAscending(s, x) ==
    IF s = <<>> THEN <<x>>
    ELSE IF x.v < Head(s).v THEN <<x>> \o s
    ELSE <<Head(s)>> \o insertAscending(Tail(s), x)

RECURSIVE sortAscending(_, _)
sortAscending(done, todo) ==
    IF todo = <<>> THEN done
    ELSE sortAscending(insertAscending(done, Head(todo)), Tail(todo))

\* Math.min(...values) and Math.max(...values) of a non-empty list of numbers
RECURSIVE MinOf(_)
MinOf(s) == IF Len(s) = 1 THEN s[1] ELSE MathMin(s[1], MinOf(Tail(s)))

RECURSIVE MaxOf(_)
MaxOf(s) == IF Len(s) = 1 THEN s[1] ELSE MathMax(s[1], MaxOf(Tail(s)))

NoStats == [isNull |-> TRUE]

\* the median of a sorted non-empty list: the upper central element alone
medianOfUpper(sorted) == Ratio(sorted[(Len(sorted) \div 2) + 1].v, 1)

\* the median of a sorted non-empty list
medianOf(sorted) ==
    LET half == Len(sorted) \div 2
    IN  IF Len(sorted) % 2 = 0
        THEN Divide(Add(sorted[half], sorted[half + 1]), Num(2))
        ELSE Ratio(sorted[half + 1].v, 1)

\* values.reduce((sum, val) => sum + Math.pow(val - mean, 2), 0) / values.length
varianceOf(values, mean) ==
    LET squares == [i \in DOMAIN values |->
                       LET d == RatSub(Ratio(values[i].v, 1), mean)
                       IN  RatMul(d, d)]
    IN  RatMul(SumRat(squares), Ratio(1, Len(values)))

\* the body shared by balanceStats and powerVotingStats, from the filtered values on
statsOf(values) ==
    IF Len(values) = 0 THEN NoStats
    ELSE LET sorted == sortAscending(<<>>, values)
             total == SumNum(values)
             mean == Divide(total, Num(Len(values)))
         IN  [isNull |-> FALSE, count |-> Len(values), total |-> total, mean |-> mean,
              median |-> medianOf(sorted), min |-> MinOf(values), max |-> MaxOf(values),
              stdDev |-> MathSqrt(varianceOf(values, mean))]

balanceStats ==
    IF Len(balances) = 0 THEN NoStats ELSE statsOf(balanceStatsValues)

\* parseFloat(String(p.powerVoting || 0))
powerAmount(p) == parseFloat(OrElse(p.powerVoting, N(0)))

powerVotingStatsValues ==
    SelectSeq([i \in DOMAIN powerVoting |-> powerAmount(powerVoting[i])],
              LAMBDA x : ~x.nan)

powerVotingStats ==
    IF Len(powerVoting) = 0 THEN NoStats ELSE statsOf(powerVotingStatsValues)

-----------------------------------------------------------------------------

(* Distributions and top holders.                                          *)

\* the bins of balanceDistribution and powerVotingDistribution; the last has no upper bound
bins ==
    << [label |-> "0-100", min |-> 0, max |-> 100, bounded |-> TRUE],
       [label |-> "100-500", min |-> 100, max |-> 500, bounded |-> TRUE],
       [label |-> "500-1000", min |-> 500, max |-> 1000, bounded |-> TRUE],
       [label |-> "1000-5000", min |-> 1000, max |-> 5000, bounded |-> TRUE],
       [label |-> "5000-10000", min |-> 5000, max |-> 10000, bounded |-> TRUE],
       [label |-> "10000+", min |-> 10000, max |-> 0, bounded |-> FALSE] >>

\* value > b.min && value <= b.max: a bound belongs to the bin below it
inBinUpperClosed(value, b) == value.v > b.min /\ (b.bounded => value.v <= b.max)

\* value >= b.min && value < b.max
inBin(value, b) == value.v >= b.min /\ (b.bounded => value.v < b.max)

\* bins.find(...): the index of the first bin that takes the value, 0 when none does
findBin(value) ==
    IF \E i \in DOMAIN bins : inBin(value, bins[i])
    THEN CHOOSE i \in DOMAIN bins :
             inBin(value, bins[i]) /\ \A j \in 1..(i - 1) : ~inBin(value, bins[j])
    ELSE 0

NoDistribution == [isNull |-> TRUE, bins |-> <<>>]

\* the body shared by the two distributions, from the filtered values on
distributionOf(values) ==
    IF Len(values) = 0 THEN NoDistribution
    ELSE [isNull |-> FALSE,
          bins |-> [i \in DOMAIN bins |->
                      [label |-> bins[i].label,
                       count |-> Len(SelectSeq(values, LAMBDA x : findBin(x) = i))]]]

\* .filter((v) => !isNaN(v) && v > 0)
positiveValues(amounts) == SelectSeq(amounts, LAMBDA x : ~x.nan /\ Gt(x, Num(0)))

balanceDistribution ==
    IF Len(balances) = 0 THEN NoDistribution
    ELSE distributionOf(positiveValues(
             [i \in DOMAIN balances |-> balanceAmount(balances[i])]))

powerVotingDistribution ==
    IF Len(powerVoting) = 0 THEN NoDistribution
    ELSE distributionOf(positiveValues(
             [i \in DOMAIN powerVoting |-> powerAmount(powerVoting[i])]))

TopCount == 10      \* .slice(0, 10)

\* the comparator (a, b) => b.amount - a.amount under a stable sort
RECURSIVE insertDescending(_, _)
insertDescending(s, x) ==
    IF s = <<>> THEN <<x>>
    ELSE IF x.amount.v > Head(s).amount.v THEN <<x>> \o s
    ELSE <<Head(s)>> \o insertDescending(Tail(s), x)

RECURSIVE sortDescending(_, _)
sortDescending(done, todo) ==
    IF todo = <<>> THEN done
    ELSE sortDescending(insertDescending(done, Head(todo)), Tail(todo))

\* the first ten items that are numbers, in row order
topOfRowOrder(items) ==
    LET kept == SelectSeq(items, LAMBDA item : ~item.amount.nan)
    IN  SubSeq(kept, 1, IF Len(kept) < TopCount THEN Len(kept) ELSE TopCount)

\* .filter(not NaN).sort(descending).slice(0, 10) on {address, amount} items
topOf(items) ==
    LET kept == SelectSeq(items, LAMBDA item : ~item.amount.nan)
        sorted == sortDescending(<<>>, kept)
    IN  SubSeq(sorted, 1, IF Len(sorted) < TopCount THEN Len(sorted) ELSE TopCount)

\* items are {address, balance}
topBalanceHolders ==
    IF Len(balances) = 0 THEN <<>>
    ELSE topOf([i \in DOMAIN balances |->
                   [address |-> balances[i].walletAddress,
                    amount |-> balanceAmount(balances[i])]])

\* items are {address, power}
topPowerVoters ==
    IF Len(powerVoting) = 0 THEN <<>>
    ELSE topOf([i \in DOMAIN powerVoting |->
                   [address |-> powerVoting[i].address,
                    amount |-> powerAmount(powerVoting[i])]])

-----------------------------------------------------------------------------

(* addressPoolProfiles: the flat position list and the profile of a wallet *)

\* const regAmount = parseFloat(String(pos.equivalentREG || '0'))
profileRegAmount(pos) == parseFloat(OrElse(pos.equivalentREG, S(0)))

\* pos.tickLower && pos.tickUpper ? 'v3' : 'v2': a bound of 0 counts as absent
profilePoolTypeTruthy(pos) ==
    IF Truthy(pos.tickLower) /\ Truthy(pos.tickUpper) THEN "v3" ELSE "v2"

\* pos.tickLower !== undefined && pos.tickUpper !== undefined ? 'v3' : 'v2'
profilePoolType(pos) ==
    IF pos.tickLower.t # "undef" /\ pos.tickUpper.t # "undef" THEN "v3" ELSE "v2"

\* the entry pushed for a raw position ({...pos, dex, network, poolType, regAmount})
profilePosition(networkName, dexName, pos) ==
    [equivalentREG |-> pos.equivalentREG, poolAddress |-> pos.poolAddress,
     tickLower |-> pos.tickLower, tickUpper |-> pos.tickUpper,
     isActive |-> pos.isActive,
     dex |-> dexName, network |-> networkName,
     poolType |-> profilePoolType(pos), regAmount |-> profileRegAmount(pos)]

\* rawPositions.forEach: positions with regAmount <= 0 are skipped
profileDexPositions(networkName, dex) ==
    IF ~dex.isArray THEN <<>>
    ELSE LET kept == SelectSeq(dex.positions,
                               LAMBDA pos : ~Leq(profileRegAmount(pos), Num(0)))
         IN  [i \in DOMAIN kept |-> profilePosition(networkName, dex.name, kept[i])]

profileNetworkPositions(net) ==
    IF ~net.hasDexs THEN <<>>
    ELSE Flatten([j \in DOMAIN net.dexs |-> profileDexPositions(net.name, net.dexs[j])])

\* the flat position list of a wallet: networks, then exchanges, then list order
walletPositions(wallet) ==
    IF ~wallet.sourceBalance.present THEN <<>>
    ELSE Flatten([n \in DOMAIN wallet.sourceBalance.networks |->
                     profileNetworkPositions(wallet.sourceBalance.networks[n])])

\* new Set(positions.map((pos) => `${pos.network}-${pos.dex}`)).size
profileDexCount(positions) ==
    Cardinality({<<positions[i].network, positions[i].dex>> : i \in DOMAIN positions})

\* parseFloat(String(wallet.totalBalanceREG || wallet.totalBalance || 0)) || 0
profileWalletREG(wallet) == OrZero(balanceAmount(wallet))

walletProfile(wallet) ==
    LET positions == walletPositions(wallet)
    IN  [address |-> wallet.walletAddress,
         walletREG |-> profileWalletREG(wallet),
         poolLiquidityREG |-> SumNum([i \in DOMAIN positions |-> positions[i].regAmount]),
         poolCount |-> Len(positions),
         dexCount |-> profileDexCount(positions),
         positions |-> positions]

\* a wallet without sourceBalance or without surviving position maps to null
hasProfile(wallet) == wallet.sourceBalance.present /\ walletPositions(wallet) # <<>>

addressPoolProfiles ==
    LET kept == SelectSeq(balances, hasProfile)
    IN  [i \in DOMAIN kept |-> walletProfile(kept[i])]

-----------------------------------------------------------------------------
(* poolAnalysis: dataset-wide totals.  Only wallet.sourceBalance.gnosis    *)
(* is read.                                                                *)

\* const regAmount = parseFloat(pos.equivalentREG || '0')
analysisRegAmount(pos) == parseFloat(OrElse(pos.equivalentREG, S(0)))

\* const isV3 = pos.tickLower !== undefined && pos.tickUpper !== undefined
analysisIsV3(pos) == pos.tickLower.t # "undef" /\ pos.tickUpper.t # "undef"

\* wallet.sourceBalance?.gnosis?.dexs, as the list of its [dexName, positions]
gnosisDexs(wallet) ==
    IF ~wallet.sourceBalance.present THEN <<>>
    ELSE LET nets == SelectSeq(wallet.sourceBalance.networks,
                               LAMBDA net : net.name = "gnosis" /\ net.hasDexs)
         IN  IF nets = <<>> THEN <<>> ELSE nets[1].dexs

\* the positions visited by the three nested forEach, as [dexName, pos] pairs
analysisDexVisits(dex) ==
    IF ~dex.isArray THEN <<>>
    ELSE [i \in DOMAIN dex.positions |-> [dexName |-> dex.name, pos |-> dex.positions[i]]]

analysisWalletVisits(wallet) ==
    LET dexs == gnosisDexs(wallet)
    IN  Flatten([j \in DOMAIN dexs |-> analysisDexVisits(dexs[j])])

analysisVisits ==
    Flatten([w \in DOMAIN balances |-> analysisWalletVisits(balances[w])])

EmptyStats == [totalREG |-> Num(0), count |-> 0, dexs |-> [d \in {} |-> Num(0)]]

\* stats.totalREG += regAmount; stats.count++;
\* stats.dexs[dexName] = (stats.dexs[dexName] || 0) + regAmount
addToStats(stats, dexName, regAmount) ==
    LET prev == IF dexName \in DOMAIN stats.dexs THEN OrZero(stats.dexs[dexName])
                ELSE Num(0)
    IN  [totalREG |-> Add(stats.totalREG, regAmount),
         count |-> stats.count + 1,
         dexs |-> [d \in (DOMAIN stats.dexs) \cup {dexName} |->
                      IF d = dexName THEN Add(prev, regAmount) ELSE stats.dexs[d]]]

\* the body of positions.forEach
analysisStep(acc, visit) ==
    LET regAmount == analysisRegAmount(visit.pos)
    IN  IF Leq(regAmount, Num(0)) THEN acc
        ELSE IF analysisIsV3(visit.pos)
             THEN [acc EXCEPT !.v3 = addToStats(acc.v3, visit.dexName, regAmount),
                              !.pools = acc.pools \cup {visit.pos.poolAddress}]
             ELSE [acc EXCEPT !.v2 = addToStats(acc.v2, visit.dexName, regAmount),
                              !.pools = acc.pools \cup {visit.pos.poolAddress}]

RECURSIVE analysisFold(_, _)
analysisFold(acc, visits) ==
    IF visits = <<>> THEN acc
    ELSE analysisFold(analysisStep(acc, Head(visits)), Tail(visits))

NoAnalysis == [isNull |-> TRUE, v2 |-> EmptyStats, v3 |-> EmptyStats, totalPools |-> 0]

\* the totals folded without the test for an empty row list
poolAnalysisOfAnyRows ==
    LET acc == analysisFold([v2 |-> EmptyStats, v3 |-> EmptyStats, pools |-> {}],
                            analysisVisits)
    IN  [isNull |-> FALSE, v2 |-> acc.v2, v3 |-> acc.v3,
         totalPools |-> Cardinality(acc.pools)]

\* poolAnalysis computed (isNull stands for the null result)
poolAnalysis ==
    IF Len(balances) = 0 THEN NoAnalysis
    ELSE LET acc == analysisFold([v2 |-> EmptyStats, v3 |-> EmptyStats, pools |-> {}],
                                 analysisVisits)
         IN  [isNull |-> FALSE, v2 |-> acc.v2, v3 |-> acc.v3,
              totalPools |-> Cardinality(acc.pools)]

-----------------------------------------------------------------------------
(* poolPowerCorrelation                                                    *)

\* new Map(powerVoting.map(e => [(e.address || '').toLowerCase(),
\*                               parseFloat(String(e.powerVoting || 0))])).get(key):
\* the last entry with that key wins; undefined when there is none
powerMapHas(key) == \E i \in DOMAIN powerVoting : toLowerCase(powerVoting[i].address) = key

powerMapGet(key) ==
    LET last == CHOOSE i \in DOMAIN powerVoting :
                    /\ toLowerCase(powerVoting[i].address) = key
                    /\ \A j \in DOMAIN powerVoting :
                          toLowerCase(powerVoting[j].address) = key => j <= i
    IN  parseFloat(OrElse(powerVoting[last].powerVoting, N(0)))

\* powerMap.get(profile.address.toLowerCase()) || 0
powerValueOf(profile) ==
    LET key == toLowerCase(profile.address)
    IN  IF powerMapHas(key) THEN OrZero(powerMapGet(key)) ELSE Num(0)

\* Math.max(profile.walletREG - profile.poolLiquidityREG, 0)
walletDirectREGOf(profile) ==
    MathMax(Sub(profile.walletREG, profile.poolLiquidityREG), Num(0))

\* profile.poolLiquidityREG > 0 ? poolVotingShare / profile.poolLiquidityREG : 0
boostMultiplierOf(poolVotingShare, poolLiquidityREG) ==
    IF Gt(poolLiquidityREG, Num(0)) THEN Divide(poolVotingShare, poolLiquidityREG)
    ELSE Ratio(0, 1)

\* correlate with the multiplier taken over the whole power of the wallet
correlateWholePower(profile) ==
    LET powerValue == powerValueOf(profile)
        walletDirectREG == walletDirectREGOf(profile)
        walletVotingShare == MathMin(powerValue, walletDirectREG)
        poolVotingShare == MathMax(Sub(powerValue, walletDirectREG), Num(0))
    IN  [address |-> profile.address, walletREG |-> profile.walletREG,
         poolLiquidityREG |-> profile.poolLiquidityREG,
         poolCount |-> profile.poolCount, dexCount |-> profile.dexCount,
         positions |-> profile.positions,
         powerVoting |-> powerValue,
         walletDirectREG |-> walletDirectREG,
         walletVotingShare |-> walletVotingShare,
         poolVotingShare |-> poolVotingShare,
         boostMultiplier |-> boostMultiplierOf(powerValue, profile.poolLiquidityREG)]

\* the body of .map((profile) => ...)
correlate(profile) ==
    LET powerValue == powerValueOf(profile)
        walletDirectREG == walletDirectREGOf(profile)
        walletVotingShare == MathMin(powerValue, walletDirectREG)
        poolVotingShare == MathMax(Sub(powerValue, walletDirectREG), Num(0))
    IN  [address |-> profile.address, walletREG |-> profile.walletREG,
         poolLiquidityREG |-> profile.poolLiquidityREG,
         poolCount |-> profile.poolCount, dexCount |-> profile.dexCount,
         positions |-> profile.positions,
         powerVoting |-> powerValue,
         walletDirectREG |-> walletDirectREG,
         walletVotingShare |-> walletVotingShare,
         poolVotingShare |-> poolVotingShare,
         boostMultiplier |-> boostMultiplierOf(poolVotingShare, profile.poolLiquidityREG)]

\* the comparator (a, b) => b.poolLiquidityREG - a.poolLiquidityREG is positive:
\* a sorts after b.  A NaN result counts as +0 (SortCompare).
sortsAfter(a, b) == Gt(Sub(b.poolLiquidityREG, a.poolLiquidityREG), Num(0))

\* insert x into the sorted list s behind every element it does not precede
RECURSIVE insertSorted(_, _)
insertSorted(s, x) ==
    IF s = <<>> THEN <<x>>
    ELSE LET last == s[Len(s)]
         IN  IF sortsAfter(last, x)
             THEN Append(insertSorted(SubSeq(s, 1, Len(s) - 1), x), last)
             ELSE Append(s, x)

\* Array.prototype.sort: a stable sort
RECURSIVE sortByPoolLiquidity(_, _)
sortByPoolLiquidity(done, todo) ==
    IF todo = <<>> THEN done
    ELSE sortByPoolLiquidity(insertSorted(done, Head(todo)), Tail(todo))

\* poolPowerCorrelation computed
poolPowerCorrelation ==
    IF Len(addressPoolProfiles) = 0 \/ Len(powerVoting) = 0 THEN <<>>
    ELSE LET mapped == [i \in DOMAIN addressPoolProfiles |-> correlate(addressPoolProfiles[i])]
             kept == SelectSeq(mapped, LAMBDA item : Gt(item.powerVoting, Num(0)))
         IN  sortByPoolLiquidity(<<>>, kept)

-----------------------------------------------------------------------------
(* analyzePoolPositions: the per-wallet pool breakdown of the address      *)
(* tracker, and isPositionActive of the position table.                    *)

\* const regAmount = parseFloat(String(pos.equivalentREG || '0'))
trackerRegAmount(pos) == parseFloat(OrElse(pos.equivalentREG, S(0)))

\* const isV3 = pos.tickLower !== undefined && pos.tickUpper !== undefined
trackerIsV3(pos) == pos.tickLower.t # "undef" /\ pos.tickUpper.t # "undef"

\* const isActive = pos.isActive !== undefined ? pos.isActive : true
trackerIsActiveDefaultTrue(pos) ==
    IF pos.isActive.t # "undef" THEN pos.isActive ELSE True

\* const isActive = pos.isActive !== undefined ? pos.isActive : (isV3 ? false : true)
trackerIsActive(pos) ==
    IF pos.isActive.t # "undef" THEN pos.isActive
    ELSE IF trackerIsV3(pos) THEN False ELSE True

\* the [networkName, dexName, rawPositions] triples whose rawPositions is an array
trackerNetworkDexs(net) ==
    IF ~net.hasDexs THEN <<>>
    ELSE LET arrays == SelectSeq(net.dexs, LAMBDA dex : dex.isArray)
         IN  [j \in DOMAIN arrays |->
                 [network |-> net.name, dex |-> arrays[j].name,
                  positions |-> arrays[j].positions]]

trackerDexs(walletData) ==
    Flatten([n \in DOMAIN walletData.sourceBalance.networks |->
                trackerNetworkDexs(walletData.sourceBalance.networks[n])])

\* the positions passing "if (regAmount <= 0) return", in visiting order
trackerPositions(walletData) ==
    LET dexs == trackerDexs(walletData)
    IN  SelectSeq(Flatten([j \in DOMAIN dexs |-> dexs[j].positions]),
                  LAMBDA pos : ~Leq(trackerRegAmount(pos), Num(0)))

\* if (isV3) { if (isActive) in range else out of range } else in range
trackerInRange(pos) == IF trackerIsV3(pos) THEN Truthy(trackerIsActive(pos)) ELSE TRUE

NoBreakdown ==
    [isNull |-> TRUE, totalPools |-> 0, regInPools |-> Num(0), poolsInRange |-> 0,
     poolsOutOfRange |-> 0, regInRange |-> Num(0), regOutOfRange |-> Num(0),
     poolRegPercentage |-> Ratio(0, 1), v2Pools |-> 0, v3Pools |-> 0, dexCount |-> 0]

\* analyzePoolPositions(walletData) (isNull stands for the null result)
analyzePoolPositions(walletData) ==
    IF ~walletData.sourceBalance.present THEN NoBreakdown
    ELSE LET dexs == trackerDexs(walletData)
             positions == trackerPositions(walletData)
             inRange == SelectSeq(positions, trackerInRange)
             outOfRange == SelectSeq(positions, LAMBDA pos : ~trackerInRange(pos))
             totalRegInPools == SumNum([i \in DOMAIN positions |-> trackerRegAmount(positions[i])])
             totalReg == balanceAmount(walletData)
         IN  [isNull |-> FALSE,
              totalPools |-> Len(positions),
              regInPools |-> totalRegInPools,
              poolsInRange |-> Len(inRange),
              poolsOutOfRange |-> Len(outOfRange),
              regInRange |-> SumNum([i \in DOMAIN inRange |-> trackerRegAmount(inRange[i])]),
              regOutOfRange |-> SumNum([i \in DOMAIN outOfRange |-> trackerRegAmount(outOfRange[i])]),
              poolRegPercentage |->
                  IF Gt(totalReg, Num(0))
                  THEN Divide(IF totalRegInPools.nan THEN NaN ELSE Num(totalRegInPools.v * 100),
                              totalReg)
                  ELSE Ratio(0, 1),
              v2Pools |-> Len(SelectSeq(positions, LAMBDA pos : ~trackerIsV3(pos))),
              v3Pools |-> Len(SelectSeq(positions, trackerIsV3)),
              \* dexSet.add runs before the positions of the exchange are filtered
              dexCount |-> Cardinality({<<dexs[j].network, dexs[j].dex>> : j \in DOMAIN dexs})]

\* isPositionActive(position) on an entry of a profile's positions:
\* "n/a" stands for null (not applicable to v2)
isPositionActive(position) ==
    IF position.poolType # "v3" THEN "n/a"
    ELSE IF position.isActive = True THEN "active" ELSE "inactive"

-----------------------------------------------------------------------------
(* The per-position power and multiplier of the position table            *)
(* (getPositionPowerAndMultiplier), with the static estimate               *)
(* (estimatePositionMultiplier) and the rounding to the theoretical values *)
(* (roundToTheoreticalMultiplier). Multipliers are exact quotients.        *)

\* String.prototype.includes on the exchange names of the inputs
includes(s, part) == s = part \/ (s = "balancer-v2" /\ part = "balancer")

RatLess(a, b) == a.num * b.den < b.num * a.den

RatAbs(a) == IF a.num < 0 THEN Ratio(0 - a.num, a.den) ELSE a

\* Math.round(x * 100) / 100 for x >= 0
roundToCents(x) == Ratio((x.num * 200 + x.den) \div (2 * x.den), 100)

\* estimatePositionMultiplier(position)
estimatePositionMultiplier(position) ==
    IF position.poolType = "v2"
    THEN LET dexName == toLowerCase(position.dex)
         IN  IF includes(dexName, "sushiswap") THEN Ratio(15, 10)
             ELSE IF includes(dexName, "honeyswap") THEN Ratio(13, 10)
             ELSE IF includes(dexName, "balancer") THEN Ratio(14, 10)
             ELSE Ratio(15, 10)
    ELSE IF position.poolType = "v3"
    THEN IF position.isActive = True THEN Ratio(25, 10) ELSE Ratio(1, 10)
    ELSE Ratio(1, 1)

\* const theoreticalValues = [0.1, 1.0, 1.3, 1.4, 1.5, 2.5]
theoreticalValues ==
    <<Ratio(1, 10), Ratio(1, 1), Ratio(13, 10), Ratio(14, 10), Ratio(15, 10), Ratio(25, 10)>>

\* const maxTolerance = 0.5
maxTolerance == Ratio(1, 2)

\* the loop of roundToTheoreticalMultiplier: the first of the nearest values
RECURSIVE closestTheoretical(_, _, _)
closestTheoretical(realMultiplier, closestValue, rest) ==
    IF rest = <<>> THEN closestValue
    ELSE LET distance == RatAbs(RatSub(realMultiplier, Head(rest)))
             minDistance == RatAbs(RatSub(realMultiplier, closestValue))
         IN  closestTheoretical(realMultiplier,
                                IF RatLess(distance, minDistance) THEN Head(rest)
                                ELSE closestValue,
                                Tail(rest))

\* the rounding that returns the real ratio
roundToTheoreticalMultiplierExact(realMultiplier) == realMultiplier

\* roundToTheoreticalMultiplier(realMultiplier)
roundToTheoreticalMultiplier(realMultiplier) ==
    LET closestValue == closestTheoretical(realMultiplier, theoreticalValues[1],
                                           theoreticalValues)
        minDistance == RatAbs(RatSub(realMultiplier, closestValue))
    IN  IF ~RatLess(maxTolerance, minDistance) THEN closestValue
        ELSE roundToCents(realMultiplier)

\* pos.poolAddress || `${pos.dex}-${pos.poolType}`
poolKeyOf(pos) ==
    IF Truthy(pos.poolAddress)
    THEN [byAddress |-> TRUE, address |-> pos.poolAddress, dex |-> "", poolType |-> ""]
    ELSE [byAddress |-> FALSE, address |-> Undef, dex |-> pos.dex, poolType |-> pos.poolType]

\* poolsMap.get(poolKey).totalREG: the amounts of the profile's positions of
\* that pool, added up
poolTotalREG(poolKey, profile) ==
    LET members == SelectSeq(profile.positions, LAMBDA pos : poolKeyOf(pos) = poolKey)
    IN  SumNum([i \in DOMAIN members |-> members[i].regAmount])

\* a * b / c on numbers, NaN when one of them is
timesOver(a, b, c) ==
    IF a.nan \/ b.nan \/ c.nan THEN RatioNaN
    ELSE RatMul(a, Ratio(b.v, c.v))

NoPowerNoMultiplier == [power |-> Ratio(0, 1), multiplier |-> Ratio(0, 1)]

\* the positionPower of getPositionPowerAndMultiplier past its first return
positionPowerOf(position, profile) ==
    LET totalREG == poolTotalREG(poolKeyOf(position), profile)
        poolTotalPower ==
            IF profile.poolVotingShare.nan THEN RatioNaN
            ELSE timesOver(Ratio(profile.poolVotingShare.v, 1), totalREG,
                           profile.poolLiquidityREG)
    IN  IF poolTotalPower.nan THEN RatioNaN
        ELSE timesOver(poolTotalPower, position.regAmount, totalREG)

\* the function without the branch of the inactive concentrated position
getPositionPowerAndMultiplierNoInactiveRule(position, profile) ==
    IF Leq(profile.poolLiquidityREG, Num(0)) \/ Leq(profile.poolVotingShare, Num(0))
    THEN NoPowerNoMultiplier
    ELSE LET positionPower == positionPowerOf(position, profile)
         IN  [power |-> positionPower,
              multiplier |->
                 IF Gt(position.regAmount, Num(0)) /\ ~positionPower.nan
                    /\ positionPower.num > 0
                 THEN roundToTheoreticalMultiplier(
                          RatMul(positionPower, Ratio(1, position.regAmount.v)))
                 ELSE IF Gt(position.regAmount, Num(0)) THEN Ratio(0, 1)
                 ELSE estimatePositionMultiplier(position)]

\* getPositionPowerAndMultiplier(position, profile) for a position of a
\* profile of poolPowerCorrelation
getPositionPowerAndMultiplier(position, profile) ==
    IF Leq(profile.poolLiquidityREG, Num(0)) \/ Leq(profile.poolVotingShare, Num(0))
    THEN NoPowerNoMultiplier
    ELSE LET positionPower == positionPowerOf(position, profile)
         IN  [power |-> positionPower,
              multiplier |->
                 IF position.poolType = "v3" /\ position.isActive = False
                 THEN Ratio(1, 1)
                 ELSE IF Gt(position.regAmount, Num(0)) /\ ~positionPower.nan
                         /\ positionPower.num > 0
                 THEN roundToTheoreticalMultiplier(
                          RatMul(positionPower, Ratio(1, position.regAmount.v)))
                 ELSE IF Gt(position.regAmount, Num(0)) THEN Ratio(0, 1)
                 ELSE estimatePositionMultiplier(position)]

-----------------------------------------------------------------------------

(* The address search across snapshots (searchAddressAcrossSnapshots).     *)
(* A snapshot of the manifest is [date, balancesFile, powerVotingFile]:    *)
(* each file is the document the server returns, or Unavailable when the   *)
(* response is not ok or is no JSON.                                      *)

Unavailable == [shape |-> "unavailable", rows |-> <<>>]

\* loadSnapshot(snapshot): throws unless both files are fetched and parsed
loadSnapshot(snapshot) ==
    IF snapshot.balancesFile = Unavailable \/ snapshot.powerVotingFile = Unavailable
    THEN [threw |-> TRUE, balances |-> Null, powerVoting |-> Null]
    ELSE [threw |-> FALSE, balances |-> snapshot.balancesFile,
          powerVoting |-> snapshot.powerVotingFile]

\* String.prototype.trim on the texts of the address field
trim(s) ==
    CASE s = " 0xA " -> "0xA"
      [] s = "  " -> ""
      [] OTHER -> s

\* dateStr.split('-') on the dates of the manifest, parts as numbers: the parts
\* are zero-padded, so the order of the strings is the order of the numbers
splitDate(date) ==
    CASE date = "01-01-2025" -> <<1, 1, 2025>>
      [] date = "31-12-2024" -> <<31, 12, 2024>>
      [] date = "15-03-2025" -> <<15, 3, 2025>>
      [] date = "02-01-2025" -> <<2, 1, 2025>>

\* .reverse()
reverse(parts) == [i \in DOMAIN parts |-> parts[Len(parts) + 1 - i]]

\* x.localeCompare(y) on joined parts: the first differing part decides
RECURSIVE localeCompare(_, _)
localeCompare(x, y) ==
    IF x = <<>> \/ y = <<>> THEN (IF x = y THEN 0 ELSE IF x = <<>> THEN -1 ELSE 1)
    ELSE IF Head(x) < Head(y) THEN -1
    ELSE IF Head(x) > Head(y) THEN 1
    ELSE localeCompare(Tail(x), Tail(y))

\* the comparator with the dates compared as they are written, day first
compareResultsDayFirst(a, b) ==
    IF a.isCurrent THEN -1
    ELSE IF b.isCurrent THEN 1
    ELSE localeCompare(splitDate(b.date), splitDate(a.date))

\* the comparator of addressSearchResults.sort
compareResults(a, b) ==
    IF a.isCurrent THEN -1
    ELSE IF b.isCurrent THEN 1
    ELSE localeCompare(reverse(splitDate(b.date)), reverse(splitDate(a.date)))

RECURSIVE insertResult(_, _)
insertResult(s, x) ==
    IF s = <<>> THEN <<x>>
    ELSE IF compareResults(Head(s), x) > 0 THEN <<x>> \o s
    ELSE <<Head(s)>> \o insertResult(Tail(s), x)

\* Array.prototype.sort (stable) under compareResults
RECURSIVE sortResults(_, _)
sortResults(done, todo) ==
    IF todo = <<>> THEN done
    ELSE sortResults(insertResult(done, Head(todo)), Tail(todo))

\* rows.find(...): the index of the first row that passes the test, 0 when none does
FirstIndex(rows, Test(_)) ==
    IF \E i \in DOMAIN rows : Test(rows[i])
    THEN CHOOSE i \in DOMAIN rows : Test(rows[i]) /\ \A j \in 1..(i - 1) : ~Test(rows[j])
    ELSE 0

\* the entry pushed for a dataset whose rows were read
resultEntry(date, isCurrent, balanceRows, powerRows, address) ==
    LET b == FirstIndex(balanceRows, LAMBDA r : toLowerCase(r.walletAddress) = address)
        p == FirstIndex(powerRows, LAMBDA r : toLowerCase(r.address) = address)
    IN  [date |-> date, isCurrent |-> isCurrent,
         reg |-> IF b # 0 THEN balanceAmount(balanceRows[b]) ELSE Num(0),
         powerVoting |-> IF p # 0 THEN powerAmount(powerRows[p]) ELSE Num(0),
         found |-> b # 0 \/ p # 0,
         poolAnalysis |-> IF b # 0 THEN analyzePoolPositions(balanceRows[b])
                          ELSE NoBreakdown]

\* the entry of the catch clause with the found flag of the other push
failedEntryMarkedFound(date) ==
    [date |-> date, isCurrent |-> FALSE, reg |-> Num(0), powerVoting |-> Num(0),
     found |-> TRUE, poolAnalysis |-> NoBreakdown]

\* the entry pushed by the catch clause
failedEntry(date) ==
    [date |-> date, isCurrent |-> FALSE, reg |-> Num(0), powerVoting |-> Num(0),
     found |-> FALSE, poolAnalysis |-> NoBreakdown]

\* balances.result?.balances || balances, then Array.isArray(...)
snapshotRows(doc, key) ==
    LET nested == IF doc.shape = "wrapper" THEN doc.result[key] ELSE Missing
    IN  rowsOf(IF TruthyValue(nested) THEN nested ELSE doc)

\* the body of the loop for one snapshot: a throw of loadSnapshot, or of reading
\* .result off a null document, is caught
historicalEntry(snapshot, address) ==
    LET loaded == loadSnapshot(snapshot)
    IN  IF loaded.threw \/ loaded.balances = Null \/ loaded.powerVoting = Null
        THEN failedEntry(snapshot.date)
        ELSE resultEntry(snapshot.date, FALSE,
                         snapshotRows(loaded.balances, "balances"),
                         snapshotRows(loaded.powerVoting, "powerVoting"), address)

-----------------------------------------------------------------------------

(* The snapshot table of the analysis view: one row per dataset with its   *)
(* wallet count and totals, and each row's difference with the next older  *)
(* row.                                                                    *)

\* the row pushed for a dataset whose rows were read; the differences are not
\* set yet
statsEntry(date, isCurrent, balanceRows, powerRows) ==
    [date |-> date, isCurrent |-> isCurrent,
     wallets |-> Len(balanceRows),
     reg |-> SumNum([i \in DOMAIN balanceRows |-> balanceAmount(balanceRows[i])]),
     power |-> SumNum([i \in DOMAIN powerRows |-> powerAmount(powerRows[i])]),
     hasDiff |-> FALSE, walletsDiff |-> 0, regDiff |-> Num(0), powerDiff |-> Num(0)]

\* the rows pushed by the body of the loop for one snapshot: a throw of
\* loadSnapshot, or of reading .result off a null document, is caught and logged
historicalStats(snapshot) ==
    LET loaded == loadSnapshot(snapshot)
    IN  IF loaded.threw \/ loaded.balances = Null \/ loaded.powerVoting = Null
        THEN <<>>
        ELSE <<statsEntry(snapshot.date, FALSE,
                          snapshotRows(loaded.balances, "balances"),
                          snapshotRows(loaded.powerVoting, "powerVoting"))>>

\* the differences taken as the older row minus the newer row
withDiffsOlderMinusNewer(rows) ==
    [i \in DOMAIN rows |->
        IF i < Len(rows)
        THEN [rows[i] EXCEPT !.hasDiff = TRUE,
                             !.walletsDiff = rows[i + 1].wallets - rows[i].wallets,
                             !.regDiff = Sub(rows[i + 1].reg, rows[i].reg),
                             !.powerDiff = Sub(rows[i + 1].power, rows[i].power)]
        ELSE rows[i]]

\* "Calculate differences": every row but the last gets its own values minus
\* those of the row after it
withDiffs(rows) ==
    [i \in DOMAIN rows |->
        IF i < Len(rows)
        THEN [rows[i] EXCEPT !.hasDiff = TRUE,
                             !.walletsDiff = rows[i].wallets - rows[i + 1].wallets,
                             !.regDiff = Sub(rows[i].reg, rows[i + 1].reg),
                             !.powerDiff = Sub(rows[i].power, rows[i + 1].power)]
        ELSE rows[i]]

\* the end of loadSnapshotStats: the sort (the comparator of the address search,
\* written out again), then the differences
finishStats(rows) == withDiffs(sortResults(<<>>, rows))

-----------------------------------------------------------------------------
(* The comparison of the current dataset with one snapshot. The view hands *)
(* the loaded snapshot to the store and reads snapshotComparison back; the *)
(* store's side is written from its contract.                              *)

NoComparison == [isNull |-> TRUE, balances |-> Null, powerVoting |-> Null, date |-> ""]

\* the argument of dataStore.setComparisonSnapshot
comparisonData(loaded, date) ==
    [isNull |-> FALSE, balances |-> loaded.balances, powerVoting |-> loaded.powerVoting,
     date |-> date]

\* the number of rows that pass the test
CountRows(rows, Test(_)) == Cardinality({i \in DOMAIN rows : Test(rows[i])})

\* a dataset's summary: holder count, pool-wallet count, total voting power
summaryOf(balanceRows, powerRows) ==
    [holders |-> Len(balanceRows),
     poolWallets |-> CountRows(balanceRows, hasProfile),
     totalPower |-> SumNum([i \in DOMAIN powerRows |-> OrZero(powerAmount(powerRows[i]))])]

\* the deltas of two summaries: current minus historical
deltasOf(current, historical) ==
    [holders |-> current.holders - historical.holders,
     poolWallets |-> current.poolWallets - historical.poolWallets,
     totalPower |-> Sub(current.totalPower, historical.totalPower)]

\* dataStore.snapshotComparison
snapshotComparison ==
    IF comparisonSnapshot.isNull
    THEN [isNull |-> TRUE]
    ELSE LET current == summaryOf(balances, powerVoting)
             comparison == summaryOf(snapshotRows(comparisonSnapshot.balances, "balances"),
                                     snapshotRows(comparisonSnapshot.powerVoting,
                                                  "powerVoting"))
         IN  [isNull |-> FALSE, current |-> current, comparison |-> comparison,
              diff |-> deltasOf(current, comparison), date |-> comparisonSnapshot.date]

-----------------------------------------------------------------------------

(* Exceptions of the computed aggregates. Reading a member of null or of   *)
(* undefined throws a TypeError, which leaves the computed.                *)

\* a null entry of a position list reads as this value in every member
NullField == [t |-> "null", v |-> 0]

isNullEntry(pos) == pos.equivalentREG.t = "null"

\* the text standing for a walletAddress that the row does not have
AbsentAddress == "undefined"

\* poolAnalysis reads pos.equivalentREG of every entry of every array under
\* sourceBalance.gnosis.dexs
poolAnalysisThrows ==
    \E i \in DOMAIN analysisVisits : isNullEntry(analysisVisits[i].pos)

\* the entries rawPositions.forEach visits for one wallet: every array of every
\* network that has dexs
profileVisits(wallet) ==
    IF ~wallet.sourceBalance.present THEN <<>>
    ELSE LET ofDex(dex) == IF dex.isArray THEN dex.positions ELSE <<>>
             ofNetwork(net) == IF net.hasDexs
                               THEN Flatten([j \in DOMAIN net.dexs |-> ofDex(net.dexs[j])])
                               ELSE <<>>
         IN  Flatten([n \in DOMAIN wallet.sourceBalance.networks |->
                         ofNetwork(wallet.sourceBalance.networks[n])])

\* addressPoolProfiles reads pos.equivalentREG of every visited entry
addressPoolProfilesThrows ==
    \E w \in DOMAIN balances :
        \E i \in DOMAIN profileVisits(balances[w]) :
            isNullEntry(profileVisits(balances[w])[i])

\* poolPowerCorrelation reads addressPoolProfiles and, with profiles and power
\* rows at hand, calls profile.address.toLowerCase() on every profile
poolPowerCorrelationThrows ==
    \/ addressPoolProfilesThrows
    \/ /\ Len(addressPoolProfiles) # 0
       /\ Len(powerVoting) # 0
       /\ \E i \in DOMAIN addressPoolProfiles :
             addressPoolProfiles[i].address = AbsentAddress

-----------------------------------------------------------------------------

(* The uploaded documents considered.                                      *)

MaxPositions == 2     \* longest position list of one exchange
MaxWallets == 3       \* most rows of a multi-wallet balances document
MaxPowerRows == 2     \* most rows of a power voting document
MaxStatRows == 2      \* most rows of a statistics document
MaxHolders == 11      \* most rows of a top-holder document
MaxSnapshots == 3     \* most snapshots of the manifest

SeqsUpTo(E, n) == UNION {[1..k -> E] : k \in 0..n}

Pos(eq, pool, lo, hi, act) ==
    [equivalentREG |-> eq, poolAddress |-> pool, tickLower |-> lo, tickUpper |-> hi,
     isActive |-> act]

SimplePos == Pos(S(500), Addr(1), Undef, Undef, Undef)
RangePos == Pos(S(300), Addr(2), N(0), N(0), Undef)      \* equal bounds, no flag
ZeroPos == Pos(S(0), Addr(3), N(10), N(20), True)
BadPos == Pos(Bad, Addr(1), Undef, Undef, Undef)         \* unparsable amount

SmallPositions == {SimplePos, RangePos, ZeroPos, BadPos}

Positions ==
    SmallPositions \cup
    { Pos(S(500), Addr(1), Undef, Undef, False),     \* simple, flag false
      Pos(S(300), Addr(2), N(10), N(20), True),      \* concentrated, in range
      Pos(N(200), Undef, N(10), N(20), False),       \* concentrated, out of range
      Pos(S(200), Addr(2), N(10), Undef, True),      \* one bound only
      Pos(S(-5), Addr(3), Undef, Undef, Undef),      \* negative amount
      Pos(Undef, Addr(3), Undef, Undef, Undef) }     \* amount missing

Dex(name, positions) == [name |-> name, isArray |-> TRUE, positions |-> positions]
NonArrayDex(name) == [name |-> name, isArray |-> FALSE, positions |-> <<>>]
Network(name, dexs) == [name |-> name, hasDexs |-> TRUE, dexs |-> dexs]
NetworkNoDexs(name) == [name |-> name, hasDexs |-> FALSE, dexs |-> <<>>]
Source(networks) == [present |-> TRUE, networks |-> networks]
NoSource == [present |-> FALSE, networks |-> <<>>]

Wallet(address, reg, total, source) ==
    [walletAddress |-> address, totalBalanceREG |-> reg, totalBalance |-> total,
     sourceBalance |-> source]

NetworkNames == {"gnosis", "ethereum"}

DexValues(name) ==
    {NonArrayDex(name)} \cup {Dex(name, l) : l \in SeqsUpTo(Positions, MaxPositions)}

SmallDexValues(name) ==
    {NonArrayDex(name), Dex(name, <<>>)} \cup {Dex(name, <<p>>) : p \in SmallPositions}

\* one wallet, every nesting of networks, exchanges and position lists
RichSources ==
    {NoSource}
    \cup {Source(<<NetworkNoDexs(n)>>) : n \in NetworkNames}
    \cup {Source(<<Network(n, <<d>>)>>) : n \in NetworkNames, d \in DexValues("sushiswap")}
    \cup {Source(<<Network(n, <<d1, d2>>)>>) :
            n \in NetworkNames, d1 \in SmallDexValues("sushiswap"),
            d2 \in SmallDexValues("honeyswap")}
    \cup {Source(<<Network("gnosis", <<d1>>), Network("ethereum", <<d2>>)>>) :
            d1 \in SmallDexValues("sushiswap"), d2 \in SmallDexValues("sushiswap")}

RichWallets == {Wallet("0xA", S(1000), Undef, s) : s \in RichSources}

OnePool(pos) == Source(<<Network("gnosis", <<Dex("sushiswap", <<pos>>)>>)>>)

\* rows of a multi-wallet document
MiniWallets ==
    { Wallet("0xA", S(1000), Undef, OnePool(SimplePos)),
      Wallet("0xb", S(500), Undef, OnePool(SimplePos)),
      Wallet("0xb", S(1000), Undef, OnePool(RangePos)),
      Wallet("0xA", S(1000), Undef, OnePool(BadPos)) }

\* one wallet with one pool, every combination of the two amount fields
AmountWallets ==
    {Wallet("0xA", reg, total, OnePool(SimplePos)) :
        reg \in {Undef, N(0), S(0), N(500), Bad}, total \in {Undef, N(700), Bad}}

PowerRow(address, power) == [address |-> address, powerVoting |-> power]

\* the addresses differ in case from the wallet addresses "0xA" and "0xb"
PowerRows ==
    {PowerRow("0xa", N(300)), PowerRow("0xB", S(2000)), PowerRow("0xB", Bad)}

\* rows of the statistics documents: amounts on and around the bin bounds
StatAmounts ==
    {N(-5), N(0), N(10), N(30), N(99), S(100), N(500), N(4999), N(10000), Bad}

StatWallets == {Wallet("0xA", a, Undef, NoSource) : a \in StatAmounts}
StatPowerRows == {PowerRow("0xa", a) : a \in StatAmounts}

\* lists longer than the top-holder lists; row i carries the address ToString(i)
HolderAmounts == {N(10), N(30)}
AmountLists == UNION {[1..k -> HolderAmounts] : k \in (MaxHolders - 1)..MaxHolders}
HolderRows(amounts) ==
    [i \in DOMAIN amounts |-> Wallet(ToString(i), amounts[i], Undef, NoSource)]
VoterRows(amounts) ==
    [i \in DOMAIN amounts |-> PowerRow(ToString(i), amounts[i])]

\* every shape of document JSON.parse can return
ShapeWallets == {Wallet("0xA", S(1000), Undef, OnePool(SimplePos))}
BalancesShapes ==
    {Null, Zero, Text, Object, Wrapper(Missing, Missing), Wrapper(Text, Missing),
     Wrapper(Zero, Missing), Wrapper(Null, Missing)}
    \cup {Bare(r) : r \in SeqsUpTo(ShapeWallets, 1)}
    \cup {Wrapper(Bare(r), p) : r \in SeqsUpTo(ShapeWallets, 1),
                               p \in {Missing, Bare(<<PowerRow("0xa", N(300))>>)}}
    \cup {Wrapper(Missing, Bare(<<PowerRow("0xa", N(300))>>))}
PowerVotingShapes ==
    {Null, Zero, Text, Object, Wrapper(Missing, Missing), Wrapper(Missing, Text),
     Wrapper(Missing, Zero), Wrapper(Missing, Null)}
    \cup {Bare(r) : r \in SeqsUpTo(PowerRows, 1)}
    \cup {Wrapper(b, Bare(r)) : r \in SeqsUpTo(PowerRows, 1),
                               b \in {Missing, Bare(<<>>)}}
    \cup {Wrapper(Bare(<<>>), Missing)}

\* the manifest: snapshots of distinct dates, in any listing order
SnapshotDates == {"01-01-2025", "31-12-2024", "15-03-2025", "02-01-2025"}

Snapshot(date, files) ==
    [date |-> date, balancesFile |-> files[1], powerVotingFile |-> files[2]]

\* what the server returns for the two files of a snapshot
SnapshotFiles ==
    { <<Unavailable, Bare(<<>>)>>,
      <<Bare(<<Wallet("0xA", S(1000), Undef, OnePool(RangePos))>>),
        WrappedPowerVoting(<<PowerRow("0xa", N(300))>>)>>,
      <<WrappedBalances(<<Wallet("0xb", N(500), Undef, NoSource)>>), Bare(<<>>)>>,
      <<Bare(<<Wallet("0xA", S(1000), Undef, NoSource)>>), Null>> }

SnapshotLists ==
    {l \in SeqsUpTo({Snapshot(d, f) : d \in SnapshotDates, f \in SnapshotFiles},
                    MaxSnapshots) :
        \A i, j \in DOMAIN l : i # j => l[i].date # l[j].date}

\* texts of the address field
SearchTexts == {"", " 0xA ", "0xb"}

\* a null entry of a position list
NullPos == Pos(NullField, NullField, NullField, NullField, NullField)

\* sourceBalance values with the defects of real exports
DefectSources ==
    { NoSource,
      Source(<<NetworkNoDexs("gnosis")>>),
      Source(<<Network("gnosis", <<NonArrayDex("sushiswap")>>)>>),
      OnePool(SimplePos), OnePool(BadPos), OnePool(ZeroPos), OnePool(NullPos),
      Source(<<Network("gnosis", <<Dex("sushiswap", <<>>)>>)>>),
      Source(<<Network("gnosis", <<Dex("sushiswap", <<SimplePos, NullPos>>)>>)>>),
      Source(<<Network("ethereum", <<Dex("sushiswap", <<NullPos>>)>>)>>) }

DefectWallets ==
    {Wallet(a, reg, Undef, s) :
        a \in {"0xA", AbsentAddress}, reg \in {S(1000), Undef, Bad}, s \in DefectSources}

DefectPowerRows ==
    {PowerRow("0xa", N(300)), PowerRow("0xB", S(2000)), PowerRow("0xa", Bad),
     PowerRow("0xa", Undef), PowerRow(AbsentAddress, N(300))}

\* the positions of the position table: simple and concentrated, with and
\* without flag and pool address, two of them in the same pool
TablePositions ==
    { SimplePos, BadPos,
      Pos(S(300), Addr(1), Undef, Undef, Undef),     \* simple, the pool of SimplePos
      Pos(S(200), Undef, Undef, Undef, Undef),       \* simple, no pool address
      Pos(S(300), Addr(2), N(10), N(20), False),     \* concentrated, out of range
      Pos(S(300), Addr(2), N(10), N(20), True),      \* concentrated, in range
      Pos(S(100), Addr(3), N(10), N(20), Undef) }    \* concentrated, no flag

TableDexNames == {"SushiSwap", "honeyswap", "balancer-v2", "swapr"}

TableWallets ==
    {Wallet("0xb", reg, Undef, Source(<<Network("gnosis", <<Dex(name, l)>>)>>)) :
        reg \in {S(500), S(1000)}, name \in TableDexNames,
        l \in SeqsUpTo(TablePositions, MaxPositions)}

TablePowerRows ==
    {PowerRow("0xB", N(p)) : p \in {0, 150, 600, 650, 1040, 2000}}

\* the uploaded dataset of the analysis view
CurrentBalances == Bare(<<Wallet("0xA", S(1000), Undef, OnePool(SimplePos))>>)
CurrentPowerVoting == Bare(<<PowerRow("0xa", N(300)), PowerRow("0xB", S(2000))>>)

-----------------------------------------------------------------------------
(* The generation server (POST /api/generate) and the generation view:     *)
(* values shared by their states.                                          *)

\* how many /api/generate requests the server receives
MaxRequests == 2

Requests == 1..MaxRequests

\* res before anything was sent
NoResponse == [status |-> 0, success |-> FALSE, exitCode |-> 0]

\* the closure of one request: the awaited step (pc), originalInquirerContent
\* ("" until it is read), isResolved, whether the 30-minute timer is pending,
\* the subprocess, whether it emitted 'error', the exit code given to the close
\* handler, the response sent and the number of calls of res.json
NoRequest ==
    [pc |-> "idle", originalInquirerContent |-> "", isResolved |-> FALSE,
     timeout |-> FALSE, child |-> "none", errored |-> FALSE, code |-> 0,
     response |-> NoResponse, jsonCalls |-> 0]

\* the server before any request: the generator's inquirer.ts as shipped, no backup
ServerIdle ==
    /\ inquirerFile = "original"
    /\ backupFile = "absent"
    /\ serverRunning = TRUE
    /\ requests = [r \in Requests |-> NoRequest]

\* the generator tasks handleGenerate may invoke, in the order it invokes them
Tasks == <<"GetBalancesREG", "CalculatePowerVotingREG", "ClassementREG">>

TaskNames == {Tasks[i] : i \in DOMAIN Tasks}

\* the generation view as mounted: nothing runs, no error is shown
GenerationIdle ==
    /\ isGenerating = FALSE
    /\ generationError = ""
    /\ generationAwaits = ""
    /\ generationOptions = [generateBalances |-> TRUE, generatePowerVoting |-> TRUE,
                            generateClassement |-> FALSE, filled |-> TRUE]
    /\ invocations = [t \in TaskNames |-> 0]
    /\ reports = [t \in TaskNames |-> "none"]

-----------------------------------------------------------------------------

(* The store: state and actions.                                           *)

Init ==
    /\ \/ /\ balancesFile \in {Bare(<<w>>) : w \in RichWallets}
          /\ powerVotingFile \in {Bare(rows) : rows \in SeqsUpTo(PowerRows, 1)}
       \/ /\ balancesFile \in {Bare(rows) : rows \in SeqsUpTo(MiniWallets, MaxWallets)}
          /\ powerVotingFile \in {Bare(rows) : rows \in SeqsUpTo(PowerRows, MaxPowerRows)}
       \/ /\ balancesFile \in {Bare(<<w>>) : w \in AmountWallets}
                                \cup {WrappedBalances(<<w>>) : w \in AmountWallets}
          /\ powerVotingFile \in {Bare(rows) : rows \in SeqsUpTo(PowerRows, 1)}
                                   \cup {WrappedPowerVoting(rows) : rows \in SeqsUpTo(PowerRows, 1)}
       \/ /\ balancesFile \in {Bare(rows) : rows \in SeqsUpTo(StatWallets, MaxStatRows)}
          /\ powerVotingFile \in {Bare(rows) : rows \in SeqsUpTo(PowerRows, 1)}
       \/ /\ balancesFile \in {Bare(rows) : rows \in SeqsUpTo(MiniWallets, 1)}
          /\ powerVotingFile \in {Bare(rows) : rows \in SeqsUpTo(StatPowerRows, MaxStatRows)}
       \/ /\ balancesFile \in {Bare(HolderRows(a)) : a \in AmountLists}
          /\ powerVotingFile = Bare(<<>>)
       \/ /\ balancesFile = Bare(<<>>)
          /\ powerVotingFile \in {Bare(VoterRows(a)) : a \in AmountLists}
       \/ /\ balancesFile \in BalancesShapes
          /\ powerVotingFile \in PowerVotingShapes
    /\ rawBalancesData = Null
    /\ rawPowerVotingData = Null
    /\ availableSnapshots = <<>>
    /\ searchAddress = ""
    /\ addressSearchResults = <<>>
    /\ isSearchingAddress = FALSE
    /\ searchAwaits = 0
    /\ addressToSearch = ""
    /\ snapshotStats = <<>>
    /\ statsAwaits = 0
    /\ selectedComparisonSnapshot = ""
    /\ comparisonSnapshot = NoComparison
    /\ runningSearches = <<>>
    /\ ServerIdle
    /\ GenerationIdle

\* setBalancesData(data), called with the parsed balances file
setBalancesData ==
    /\ rawBalancesData' = balancesFile
    /\ UNCHANGED <<balancesFile, powerVotingFile, rawPowerVotingData, searchVars,
                   comparisonVars, generateVars>>

\* setPowerVotingData(data), called with the parsed power voting file
setPowerVotingData ==
    /\ rawPowerVotingData' = powerVotingFile
    /\ UNCHANGED <<balancesFile, powerVotingFile, rawBalancesData, searchVars,
                   comparisonVars, generateVars>>

clearData ==
    /\ rawBalancesData' = Null
    /\ rawPowerVotingData' = Null
    /\ UNCHANGED <<balancesFile, powerVotingFile, searchVars, comparisonVars, generateVars>>

Next == setBalancesData \/ setPowerVotingData \/ clearData

Spec == Init /\ [][Next]_vars

-----------------------------------------------------------------------------
(* The analysis view: one address search at a time over the manifest.      *)

SearchInit ==
    /\ balancesFile = CurrentBalances
    /\ powerVotingFile = CurrentPowerVoting
    /\ rawBalancesData = CurrentBalances
    /\ rawPowerVotingData = CurrentPowerVoting
    /\ availableSnapshots \in SnapshotLists
    /\ searchAddress \in SearchTexts
    /\ addressSearchResults = <<>>
    /\ isSearchingAddress = FALSE
    /\ searchAwaits = 0
    /\ addressToSearch = ""
    /\ snapshotStats = <<>>
    /\ statsAwaits = 0
    /\ selectedComparisonSnapshot = ""
    /\ comparisonSnapshot = NoComparison
    /\ runningSearches = <<>>
    /\ ServerIdle
    /\ GenerationIdle

\* v-model of the address field
typeAddress ==
    /\ searchAddress' \in SearchTexts \ {searchAddress}
    /\ UNCHANGED <<storeVars, availableSnapshots, addressSearchResults,
                   isSearchingAddress, searchAwaits, addressToSearch, comparisonVars,
                   runningSearches, generateVars>>

\* searchAddressAcrossSnapshots() up to its first await; with no snapshot to
\* load it runs to its end
searchAddressAcrossSnapshots ==
    /\ searchAwaits = 0
    /\ IF trim(searchAddress) = ""
       THEN /\ addressSearchResults' = <<>>
            /\ UNCHANGED <<isSearchingAddress, searchAwaits, addressToSearch>>
       ELSE LET address == toLowerCase(trim(searchAddress))
                first == <<resultEntry("Actuel", TRUE, balances, powerVoting, address)>>
            IN  /\ addressToSearch' = address
                /\ IF availableSnapshots = <<>>
                   THEN /\ addressSearchResults' = sortResults(<<>>, first)
                        /\ isSearchingAddress' = FALSE
                        /\ searchAwaits' = 0
                   ELSE /\ addressSearchResults' = first
                        /\ isSearchingAddress' = TRUE
                        /\ searchAwaits' = 1
    /\ UNCHANGED <<storeVars, availableSnapshots, searchAddress, comparisonVars,
                   runningSearches, generateVars>>

\* the resumption with a catch clause that logs and pushes nothing
loadSnapshotSettlesSkipping ==
    /\ searchAwaits > 0
    /\ LET snapshot == availableSnapshots[searchAwaits]
           entry == historicalEntry(snapshot, addressToSearch)
           pushed == IF entry = failedEntry(snapshot.date) THEN addressSearchResults
                     ELSE Append(addressSearchResults, entry)
       IN  IF searchAwaits < Len(availableSnapshots)
           THEN /\ addressSearchResults' = pushed
                /\ searchAwaits' = searchAwaits + 1
                /\ UNCHANGED isSearchingAddress
           ELSE /\ addressSearchResults' = sortResults(<<>>, pushed)
                /\ isSearchingAddress' = FALSE
                /\ searchAwaits' = 0
    /\ UNCHANGED <<storeVars, availableSnapshots, searchAddress, addressToSearch,
                   comparisonVars, runningSearches, generateVars>>

\* the search resumes when loadSnapshot settles: it pushes the snapshot's entry,
\* then awaits the next snapshot or, after the last, sorts and ends
loadSnapshotSettles ==
    /\ searchAwaits > 0
    /\ LET snapshot == availableSnapshots[searchAwaits]
           pushed == Append(addressSearchResults,
                            historicalEntry(snapshot, addressToSearch))
       IN  IF searchAwaits < Len(availableSnapshots)
           THEN /\ addressSearchResults' = pushed
                /\ searchAwaits' = searchAwaits + 1
                /\ UNCHANGED isSearchingAddress
           ELSE /\ addressSearchResults' = sortResults(<<>>, pushed)
                /\ isSearchingAddress' = FALSE
                /\ searchAwaits' = 0
    /\ UNCHANGED <<storeVars, availableSnapshots, searchAddress, addressToSearch,
                   comparisonVars, runningSearches, generateVars>>

SearchNext == typeAddress \/ searchAddressAcrossSnapshots \/ loadSnapshotSettles

SearchSpec == SearchInit /\ [][SearchNext]_vars

-----------------------------------------------------------------------------
(* The analysis view: the snapshot table and the comparison.               *)

\* the uploaded dataset: the one of the search, or an empty one
CurrentDatasets == {<<CurrentBalances, CurrentPowerVoting>>, <<Bare(<<>>), Bare(<<>>)>>}

ComparisonInit ==
    /\ \E current \in CurrentDatasets :
          /\ balancesFile = current[1]
          /\ powerVotingFile = current[2]
          /\ rawBalancesData = current[1]
          /\ rawPowerVotingData = current[2]
    /\ availableSnapshots \in SnapshotLists
    /\ searchAddress = ""
    /\ addressSearchResults = <<>>
    /\ isSearchingAddress = FALSE
    /\ searchAwaits = 0
    /\ addressToSearch = ""
    /\ snapshotStats = <<>>
    /\ statsAwaits = 0
    /\ selectedComparisonSnapshot = ""
    /\ comparisonSnapshot = NoComparison
    /\ runningSearches = <<>>
    /\ ServerIdle
    /\ GenerationIdle

\* loadSnapshotStats() up to its first await; with no snapshot to load it runs
\* to its end
loadSnapshotStats ==
    /\ statsAwaits = 0
    /\ LET first == <<statsEntry("Actuel", TRUE, balances, powerVoting)>>
       IN  IF availableSnapshots = <<>>
           THEN /\ snapshotStats' = finishStats(first)
                /\ statsAwaits' = 0
           ELSE /\ snapshotStats' = first
                /\ statsAwaits' = 1
    /\ UNCHANGED <<generateVars, storeVars, searchVars, selectedComparisonSnapshot, comparisonSnapshot>>

\* loadSnapshotStats resumes when loadSnapshot settles: it pushes the snapshot's
\* row unless the load failed, then awaits the next snapshot or, after the last,
\* sorts and takes the differences
loadSnapshotStatsResumes ==
    /\ statsAwaits > 0
    /\ LET pushed == snapshotStats \o historicalStats(availableSnapshots[statsAwaits])
       IN  IF statsAwaits < Len(availableSnapshots)
           THEN /\ snapshotStats' = pushed
                /\ statsAwaits' = statsAwaits + 1
           ELSE /\ snapshotStats' = finishStats(pushed)
                /\ statsAwaits' = 0
    /\ UNCHANGED <<generateVars, storeVars, searchVars, selectedComparisonSnapshot, comparisonSnapshot>>

\* the select's change event: loadComparisonSnapshot() for the chosen date; the
\* select is disabled until the load settles. A failed load is logged and the
\* store keeps what it had.
loadComparisonSnapshot ==
    /\ \E i \in DOMAIN availableSnapshots :
          LET snapshot == availableSnapshots[i]
              loaded == loadSnapshot(snapshot)
          IN  /\ selectedComparisonSnapshot' = snapshot.date
              /\ comparisonSnapshot' = IF loaded.threw THEN comparisonSnapshot
                                       ELSE comparisonData(loaded, snapshot.date)
    /\ UNCHANGED <<generateVars, storeVars, searchVars, snapshotStats, statsAwaits>>

\* clearComparison(): dataStore.clearComparisonSnapshot(), then the selection
clearComparison ==
    /\ ~snapshotComparison.isNull
    /\ comparisonSnapshot' = NoComparison
    /\ selectedComparisonSnapshot' = ""
    /\ UNCHANGED <<generateVars, storeVars, searchVars, snapshotStats, statsAwaits>>

ComparisonNext ==
    \/ loadSnapshotStats
    \/ loadSnapshotStatsResumes
    \/ loadComparisonSnapshot
    \/ clearComparison

ComparisonSpec == ComparisonInit /\ [][ComparisonNext]_vars

-----------------------------------------------------------------------------
(* The store with documents that carry data-quality defects.               *)

DefectInit ==
    /\ balancesFile \in {Bare(rows) : rows \in SeqsUpTo(DefectWallets, 1)}
    /\ powerVotingFile \in {Bare(rows) : rows \in SeqsUpTo(DefectPowerRows, 1)}
    /\ rawBalancesData = Null
    /\ rawPowerVotingData = Null
    /\ availableSnapshots = <<>>
    /\ searchAddress = ""
    /\ addressSearchResults = <<>>
    /\ isSearchingAddress = FALSE
    /\ searchAwaits = 0
    /\ addressToSearch = ""
    /\ snapshotStats = <<>>
    /\ statsAwaits = 0
    /\ selectedComparisonSnapshot = ""
    /\ comparisonSnapshot = NoComparison
    /\ runningSearches = <<>>
    /\ ServerIdle
    /\ GenerationIdle

DefectSpec == DefectInit /\ [][Next]_vars

-----------------------------------------------------------------------------
(* The store with the documents of the position table.                     *)

TableInit ==
    /\ balancesFile \in {Bare(<<w>>) : w \in TableWallets}
    /\ powerVotingFile \in {Bare(<<p>>) : p \in TablePowerRows}
    /\ rawBalancesData = Null
    /\ rawPowerVotingData = Null
    /\ availableSnapshots = <<>>
    /\ searchAddress = ""
    /\ addressSearchResults = <<>>
    /\ isSearchingAddress = FALSE
    /\ searchAwaits = 0
    /\ addressToSearch = ""
    /\ snapshotStats = <<>>
    /\ statsAwaits = 0
    /\ selectedComparisonSnapshot = ""
    /\ comparisonSnapshot = NoComparison
    /\ runningSearches = <<>>
    /\ ServerIdle
    /\ GenerationIdle

TableSpec == TableInit /\ [][Next]_vars

-----------------------------------------------------------------------------
(* The generation server: one POST /api/generate handler per request,      *)
(* split at its awaits, and the callbacks of its subprocess.               *)

\* the exit codes a subprocess that ran to its end closes with
ExitCodes == {0, 1}

\* the body sent when the 30-minute timer expires
timeoutResponse == [status |-> 200, success |-> FALSE, exitCode |-> -1]

\* the body sent by the 'error' listeners
errorResponse == [status |-> 500, success |-> FALSE, exitCode |-> 0]

\* the body sent by the 'close' listener
closeResponse(success, code) ==
    [status |-> 200, success |-> success /\ code = 0, exitCode |-> code]

\* res.json(body) throws once a response was sent (headers already sent)
jsonThrows(request) == request.response # NoResponse

\* res.json(body): the first call sends the body
json(request, body) ==
    [request EXCEPT !.jsonCalls = @ + 1,
                    !.response = IF jsonThrows(request) THEN @ ELSE body]

\* the request arrives; the handler runs to the read of inquirer.ts
receiveGenerate(r) ==
    /\ serverRunning
    /\ requests[r].pc = "idle"
    /\ requests' = [requests EXCEPT ![r].pc = "read"]
    /\ UNCHANGED <<inquirerFile, backupFile, serverRunning>>
    /\ UNCHANGED <<storeVars, searchVars, comparisonVars, generationVars>>

\* originalInquirerContent = await fs.readFile(originalInquirerPath)
readOriginal(r) ==
    /\ serverRunning
    /\ requests[r].pc = "read"
    /\ requests' = [requests EXCEPT ![r].pc = "backup",
                                    ![r].originalInquirerContent = inquirerFile]
    /\ UNCHANGED <<inquirerFile, backupFile, serverRunning>>
    /\ UNCHANGED <<storeVars, searchVars, comparisonVars, generationVars>>

\* await fs.writeFile(backupInquirerPath, originalInquirerContent)
writeBackup(r) ==
    /\ serverRunning
    /\ requests[r].pc = "backup"
    /\ backupFile' = requests[r].originalInquirerContent
    /\ requests' = [requests EXCEPT ![r].pc = "mock"]
    /\ UNCHANGED <<inquirerFile, serverRunning>>
    /\ UNCHANGED <<storeVars, searchVars, comparisonVars, generationVars>>

\* await fs.writeFile(originalInquirerPath, mockedInquirerContent)
writeMocked(r) ==
    /\ serverRunning
    /\ requests[r].pc = "mock"
    /\ inquirerFile' = "mocked"
    /\ requests' = [requests EXCEPT ![r].pc = "spawn"]
    /\ UNCHANGED <<backupFile, serverRunning>>
    /\ UNCHANGED <<storeVars, searchVars, comparisonVars, generationVars>>

\* the wrapper script is written, the subprocess is spawned, the timer is set and
\* the listeners are registered
spawnChild(r) ==
    /\ serverRunning
    /\ requests[r].pc = "spawn"
    /\ requests' = [requests EXCEPT ![r].pc = "listening", ![r].child = "running",
                                    ![r].isResolved = FALSE, ![r].timeout = TRUE]
    /\ UNCHANGED <<inquirerFile, backupFile, serverRunning>>
    /\ UNCHANGED <<storeVars, searchVars, comparisonVars, generationVars>>

\* the 30-minute timer expires
timeoutExpires(r) ==
    /\ serverRunning
    /\ requests[r].timeout
    /\ LET request == [requests[r] EXCEPT !.timeout = FALSE]
           killed == [request EXCEPT !.isResolved = TRUE,
                                     !.child = IF @ = "running" THEN "killed" ELSE @]
       IN  IF request.isResolved
           THEN /\ requests' = [requests EXCEPT ![r] = request]
                /\ UNCHANGED serverRunning
           ELSE /\ requests' = [requests EXCEPT ![r] = json(killed, timeoutResponse)]
                /\ serverRunning' = ~jsonThrows(killed)
    /\ UNCHANGED <<inquirerFile, backupFile>>
    /\ UNCHANGED <<storeVars, searchVars, comparisonVars, generationVars>>

\* the first 'error' listener: answers unless the request is resolved
guardedError(request) ==
    IF request.isResolved THEN request
    ELSE json([request EXCEPT !.isResolved = TRUE, !.timeout = FALSE], errorResponse)

\* the subprocess emits 'error' (it could not be spawned, or could not be killed):
\* both 'error' listeners run, in the order of their registration; an exception
\* thrown by a listener is uncaught and ends the process
childErrors(r) ==
    /\ serverRunning
    /\ requests[r].child \in {"running", "killed"}
    /\ ~requests[r].errored
    /\ LET first == guardedError([requests[r] EXCEPT !.errored = TRUE])
       IN  /\ requests' = [requests EXCEPT ![r] = json(first, errorResponse)]
           /\ serverRunning' = ~jsonThrows(first)
    /\ UNCHANGED <<inquirerFile, backupFile>>
    /\ UNCHANGED <<storeVars, searchVars, comparisonVars, generationVars>>

\* the subprocess emits 'close': the listener returns when the request is
\* resolved, and otherwise runs to the write that restores inquirer.ts
childCloses(r) ==
    /\ serverRunning
    /\ requests[r].child \in {"running", "killed"}
    /\ \E code \in ExitCodes :
          requests' = [requests EXCEPT ![r] =
              IF @.isResolved THEN [@ EXCEPT !.child = "closed"]
              ELSE [@ EXCEPT !.child = "closed", !.isResolved = TRUE,
                             !.timeout = FALSE, !.pc = "closing", !.code = code]]
    /\ UNCHANGED <<inquirerFile, backupFile, serverRunning>>
    /\ UNCHANGED <<storeVars, searchVars, comparisonVars, generationVars>>

\* if (originalInquirerContent) await fs.writeFile(originalInquirerPath, ...)
restoreInquirer(r) ==
    /\ serverRunning
    /\ requests[r].pc = "closing"
    /\ inquirerFile' = IF requests[r].originalInquirerContent # ""
                       THEN requests[r].originalInquirerContent ELSE inquirerFile
    /\ requests' = [requests EXCEPT ![r].pc = "result"]
    /\ UNCHANGED <<backupFile, serverRunning>>
    /\ UNCHANGED <<storeVars, searchVars, comparisonVars, generationVars>>

\* task-result.json is read and the close listener answers
closeCompletes(r) ==
    /\ serverRunning
    /\ requests[r].pc = "result"
    /\ \E success \in BOOLEAN :
          LET request == [requests[r] EXCEPT !.pc = "closed"]
          IN  /\ requests' = [requests EXCEPT ![r] =
                                  json(request, closeResponse(success, request.code))]
              /\ serverRunning' = ~jsonThrows(request)
    /\ UNCHANGED <<inquirerFile, backupFile>>
    /\ UNCHANGED <<storeVars, searchVars, comparisonVars, generationVars>>

ServerInit ==
    /\ balancesFile = Missing
    /\ powerVotingFile = Missing
    /\ rawBalancesData = Null
    /\ rawPowerVotingData = Null
    /\ availableSnapshots = <<>>
    /\ searchAddress = ""
    /\ addressSearchResults = <<>>
    /\ isSearchingAddress = FALSE
    /\ searchAwaits = 0
    /\ addressToSearch = ""
    /\ snapshotStats = <<>>
    /\ statsAwaits = 0
    /\ selectedComparisonSnapshot = ""
    /\ comparisonSnapshot = NoComparison
    /\ runningSearches = <<>>
    /\ ServerIdle
    /\ GenerationIdle

ServerNext ==
    \E r \in Requests :
        \/ receiveGenerate(r)
        \/ readOriginal(r)
        \/ writeBackup(r)
        \/ writeMocked(r)
        \/ spawnChild(r)
        \/ timeoutExpires(r)
        \/ childErrors(r)
        \/ childCloses(r)
        \/ restoreInquirer(r)
        \/ closeCompletes(r)

ServerSpec == ServerInit /\ [][ServerNext]_vars

\* a pending timer fires and a started file operation ends while the process lives
ServerFairSpec ==
    /\ ServerSpec
    /\ \A r \in Requests :
          /\ WF_vars(timeoutExpires(r))
          /\ WF_vars(restoreInquirer(r))
          /\ WF_vars(closeCompletes(r))

-----------------------------------------------------------------------------

(* The generation view: handleGenerate, split at its awaits.               *)

\* the form states: the three checkboxes, and whether both dates are filled in
OptionSets ==
    [generateBalances : BOOLEAN, generatePowerVoting : BOOLEAN,
     generateClassement : BOOLEAN, filled : BOOLEAN]

\* what one invocation of api.generate gives: a response with success true, a
\* response with success false (the timeout answer of the server is one), or an
\* exception (the response is not ok, or the fetch fails)
Outcomes == {"success", "failure", "threw"}

\* the step's if (generationOptions.value.generate...)
requested(task, options) ==
    CASE task = "GetBalancesREG" -> options.generateBalances
      [] task = "CalculatePowerVotingREG" -> options.generatePowerVoting
      [] task = "ClassementREG" -> options.generateClassement

\* the index of the first requested step after step `from`, 0 when there is none
nextStep(from, options) ==
    IF \E i \in DOMAIN Tasks : i > from /\ requested(Tasks[i], options)
    THEN CHOOSE i \in DOMAIN Tasks :
             /\ i > from /\ requested(Tasks[i], options)
             /\ \A j \in DOMAIN Tasks : (j > from /\ requested(Tasks[j], options)) => i <= j
    ELSE 0

stepOf(task) == CHOOSE i \in DOMAIN Tasks : Tasks[i] = task

\* the message a step shows when its response has success false
failureMessage(task) ==
    CASE task = "GetBalancesREG" -> "Erreur lors de la generation des balances: "
      [] task = "CalculatePowerVotingREG" -> "Erreur lors de la generation du Power Voting: "
      [] task = "ClassementREG" -> "Erreur lors de la generation du classement: "

\* the message of the Error api.generate throws: error.error || 'Failed to generate'
thrownMessage == "Failed to generate"

\* v-model of the checkboxes and of the dates, which stay enabled during a run
setOptions ==
    /\ generationOptions' \in OptionSets \ {generationOptions}
    /\ UNCHANGED <<isGenerating, generationError, generationAwaits, invocations, reports>>
    /\ UNCHANGED <<storeVars, searchVars, comparisonVars, serverVars>>

\* handleGenerate runs on from step `from`: it calls api.generate for the next
\* requested task and awaits it, or awaits the refresh of the file list
runOn(from, counted, error) ==
    LET step == nextStep(from, generationOptions)
    IN  /\ isGenerating' = TRUE
        /\ generationError' = error
        /\ IF step = 0
           THEN /\ generationAwaits' = "refresh"
                /\ invocations' = counted
           ELSE /\ generationAwaits' = Tasks[step]
                /\ invocations' = [counted EXCEPT ![Tasks[step]] = @ + 1]

\* the run ends: finally { isGenerating.value = false }
runEnds(error) ==
    /\ isGenerating' = FALSE
    /\ generationError' = error
    /\ generationAwaits' = ""
    /\ UNCHANGED invocations

\* a click on the button, which is disabled while isGenerating and while neither
\* balances nor power voting is chosen: handleGenerate up to its first await
handleGenerate ==
    /\ ~isGenerating
    /\ generationOptions.generateBalances \/ generationOptions.generatePowerVoting
    /\ reports' = [t \in TaskNames |-> "none"]
    /\ IF ~generationOptions.filled
       THEN /\ generationError' = "Veuillez renseigner les dates de debut et de fin"
            /\ invocations' = [t \in TaskNames |-> 0]
            /\ UNCHANGED <<isGenerating, generationAwaits>>
       ELSE runOn(0, [t \in TaskNames |-> 0], "")
    /\ UNCHANGED generationOptions
    /\ UNCHANGED <<storeVars, searchVars, comparisonVars, serverVars>>

\* as generateSettles, but a failed invocation is called again
generateSettlesRetrying ==
    /\ generationAwaits \in TaskNames
    /\ \E outcome \in Outcomes :
          LET task == generationAwaits
          IN  /\ reports' = [reports EXCEPT ![task] = outcome]
              /\ CASE outcome = "threw" -> runEnds(thrownMessage)
                   [] outcome = "failure" ->
                          runOn(stepOf(task) - 1, invocations, failureMessage(task))
                   [] outcome = "success" ->
                          runOn(stepOf(task), invocations, generationError)
    /\ UNCHANGED generationOptions
    /\ UNCHANGED <<storeVars, searchVars, comparisonVars, serverVars>>

\* the awaited api.generate settles and handleGenerate resumes: an exception goes
\* to the catch clause, a failure of GetBalancesREG returns, a failure of a later
\* task sets the message and goes on
generateSettles ==
    /\ generationAwaits \in TaskNames
    /\ \E outcome \in Outcomes :
          LET task == generationAwaits
          IN  /\ reports' = [reports EXCEPT ![task] = outcome]
              /\ CASE outcome = "threw" -> runEnds(thrownMessage)
                   [] outcome = "failure" ->
                          IF task = "GetBalancesREG" THEN runEnds(failureMessage(task))
                          ELSE runOn(stepOf(task), invocations, failureMessage(task))
                   [] outcome = "success" ->
                          runOn(stepOf(task), invocations, generationError)
    /\ UNCHANGED generationOptions
    /\ UNCHANGED <<storeVars, searchVars, comparisonVars, serverVars>>

\* refreshGeneratedFiles and loadGeneratedFilesToStore settle; each catches its
\* own exceptions, and the second one shows a message when the loading fails
filesLoaded ==
    /\ generationAwaits = "refresh"
    /\ \E failed \in BOOLEAN :
          runEnds(IF failed THEN "Erreur lors du chargement automatique des fichiers"
                  ELSE generationError)
    /\ UNCHANGED <<generationOptions, reports>>
    /\ UNCHANGED <<storeVars, searchVars, comparisonVars, serverVars>>

GenerationInit ==
    /\ balancesFile = Missing
    /\ powerVotingFile = Missing
    /\ rawBalancesData = Null
    /\ rawPowerVotingData = Null
    /\ availableSnapshots = <<>>
    /\ searchAddress = ""
    /\ addressSearchResults = <<>>
    /\ isSearchingAddress = FALSE
    /\ searchAwaits = 0
    /\ addressToSearch = ""
    /\ snapshotStats = <<>>
    /\ statsAwaits = 0
    /\ selectedComparisonSnapshot = ""
    /\ comparisonSnapshot = NoComparison
    /\ runningSearches = <<>>
    /\ ServerIdle
    /\ GenerationIdle

GenerationNext == setOptions \/ handleGenerate \/ generateSettles \/ filesLoaded

GenerationSpec == GenerationInit /\ [][GenerationNext]_vars

-----------------------------------------------------------------------------

(* The analysis view: address searches that overlap. Each invocation of    *)
(* searchAddressAcrossSnapshots keeps its own addressToSearch and its own  *)
(* position in the manifest; the result list and the flag are shared refs. *)

\* how many invocations of the address search run at the same time
MaxSearches == 2

\* the sequence without its i-th element
without(running, i) ==
    [k \in 1..(Len(running) - 1) |-> IF k < i THEN running[k] ELSE running[k + 1]]

\* the Enter key on the address field (never disabled), the button (disabled by
\* isSearchingAddress) or the mount: searchAddressAcrossSnapshots() up to its
\* first await, whatever other invocation is waiting
searchStarts ==
    /\ Len(runningSearches) < MaxSearches
    /\ IF trim(searchAddress) = ""
       THEN /\ addressSearchResults' = <<>>
            /\ UNCHANGED <<isSearchingAddress, runningSearches>>
       ELSE LET address == toLowerCase(trim(searchAddress))
                first == <<resultEntry("Actuel", TRUE, balances, powerVoting, address)>>
            IN  IF availableSnapshots = <<>>
                THEN /\ addressSearchResults' = sortResults(<<>>, first)
                     /\ isSearchingAddress' = FALSE
                     /\ UNCHANGED runningSearches
                ELSE /\ addressSearchResults' = first
                     /\ isSearchingAddress' = TRUE
                     /\ runningSearches' =
                            Append(runningSearches,
                                   [addressToSearch |-> address, awaits |-> 1])
    /\ UNCHANGED <<storeVars, availableSnapshots, searchAddress, searchAwaits,
                   addressToSearch, comparisonVars, generateVars>>

\* the loadSnapshot awaited by the i-th waiting invocation settles: the invocation
\* pushes the snapshot's entry onto the list the ref holds now, then awaits the
\* next snapshot or, after the last, sorts that list and resets the flag
searchResumes(i) ==
    /\ i \in DOMAIN runningSearches
    /\ LET search == runningSearches[i]
           snapshot == availableSnapshots[search.awaits]
           pushed == Append(addressSearchResults,
                            historicalEntry(snapshot, search.addressToSearch))
       IN  IF search.awaits < Len(availableSnapshots)
           THEN /\ addressSearchResults' = pushed
                /\ runningSearches' = [runningSearches EXCEPT ![i].awaits = @ + 1]
                /\ UNCHANGED isSearchingAddress
           ELSE /\ addressSearchResults' = sortResults(<<>>, pushed)
                /\ isSearchingAddress' = FALSE
                /\ runningSearches' = without(runningSearches, i)
    /\ UNCHANGED <<storeVars, availableSnapshots, searchAddress, searchAwaits,
                   addressToSearch, comparisonVars, generateVars>>

\* the analysis view with its uploaded dataset and a loaded manifest
OverlapInit ==
    /\ balancesFile = CurrentBalances
    /\ powerVotingFile = CurrentPowerVoting
    /\ rawBalancesData = CurrentBalances
    /\ rawPowerVotingData = CurrentPowerVoting
    /\ availableSnapshots \in {l \in SnapshotLists : Len(l) <= 2}
    /\ searchAddress \in SearchTexts
    /\ addressSearchResults = <<>>
    /\ isSearchingAddress = FALSE
    /\ searchAwaits = 0
    /\ addressToSearch = ""
    /\ snapshotStats = <<>>
    /\ statsAwaits = 0
    /\ selectedComparisonSnapshot = ""
    /\ comparisonSnapshot = NoComparison
    /\ runningSearches = <<>>
    /\ ServerIdle
    /\ GenerationIdle

OverlapNext ==
    \/ typeAddress
    \/ searchStarts
    \/ \E i \in 1..MaxSearches : searchResumes(i)

OverlapSpec == OverlapInit /\ [][OverlapNext]_vars

-----------------------------------------------------------------------------

(* Vocabulary of the properties, read off the raw documents.               *)

\* the raw positions of a wallet with their network and exchange, in source order
rawDexEntries(networkName, dex) ==
    IF ~dex.isArray THEN <<>>
    ELSE [i \in DOMAIN dex.positions |->
             [network |-> networkName, dex |-> dex.name, pos |-> dex.positions[i]]]

rawNetworkEntries(net) ==
    IF ~net.hasDexs THEN <<>>
    ELSE Flatten([j \in DOMAIN net.dexs |-> rawDexEntries(net.name, net.dexs[j])])

rawEntries(wallet) ==
    IF ~wallet.sourceBalance.present THEN <<>>
    ELSE Flatten([n \in DOMAIN wallet.sourceBalance.networks |->
                     rawNetworkEntries(wallet.sourceBalance.networks[n])])

IsNumeric(x) == x.t \in {"num", "str"}

\* the position's amount is a number and is > 0
Surviving(pos) == IsNumeric(pos.equivalentREG) /\ pos.equivalentREG.v > 0

\* both price-range bounds are present on the raw position
HasRange(pos) == pos.tickLower # Undef /\ pos.tickUpper # Undef

Count(s, Test(_)) == Len(SelectSeq(s, Test))

StoreLoaded == rawBalancesData # Null /\ rawPowerVotingData # Null

-----------------------------------------------------------------------------
\* C1: in every wallet profile of poolPowerCorrelation,
\* walletVotingShare + poolVotingShare equals the wallet's power.
C1_SharesSumToPower ==
    \A i \in DOMAIN poolPowerCorrelation :
        LET p == poolPowerCorrelation[i]
        IN  Add(p.walletVotingShare, p.poolVotingShare) = p.powerVoting

\* C2: in every wallet profile, walletDirectREG is max(totalREG - poolLiquidityREG, 0),
\* it is 0 when the pool liquidity exceeds the total, and poolLiquidityREG,
\* walletDirectREG, walletVotingShare and poolVotingShare are all >= 0.
C2_DirectShareClamped ==
    \A i \in DOMAIN poolPowerCorrelation :
        LET p == poolPowerCorrelation[i]
        IN  /\ p.walletDirectREG = MathMax(Sub(p.walletREG, p.poolLiquidityREG), Num(0))
            /\ Gt(p.poolLiquidityREG, p.walletREG) => p.walletDirectREG = Num(0)
            /\ Geq(p.poolLiquidityREG, Num(0))
            /\ Geq(p.walletDirectREG, Num(0))
            /\ Geq(p.walletVotingShare, Num(0))
            /\ Geq(p.poolVotingShare, Num(0))

\* C3: in every wallet profile boostMultiplier is poolVotingShare / poolLiquidityREG
\* when poolLiquidityREG > 0 and 0 otherwise; a wallet with totalREG 500, pool
\* liquidity 500 and power 2000 has walletDirectREG 0, walletVotingShare 0,
\* poolVotingShare 2000 and boostMultiplier 4.
C3_BoostMultiplier ==
    LET correlation == poolPowerCorrelation
    IN  \A i \in DOMAIN correlation :
        LET p == correlation[i]
        IN  /\ IF Gt(p.poolLiquidityREG, Num(0))
               THEN /\ ~p.boostMultiplier.nan
                    /\ ~p.poolVotingShare.nan
                    /\ p.boostMultiplier.den > 0
                    /\ p.boostMultiplier.num * p.poolLiquidityREG.v
                          = p.poolVotingShare.v * p.boostMultiplier.den
               ELSE p.boostMultiplier = [nan |-> FALSE, num |-> 0, den |-> 1]
            /\ (p.walletREG = Num(500) /\ p.poolLiquidityREG = Num(500)
                   /\ p.powerVoting = Num(2000))
               => /\ p.walletDirectREG = Num(0)
                  /\ p.walletVotingShare = Num(0)
                  /\ p.poolVotingShare = Num(2000)
                  /\ p.boostMultiplier = [nan |-> FALSE, num |-> 4, den |-> 1]

\* C3 witness: the store holds a wallet with totalREG 500 and one simple position of
\* 500 REG whose power is 2000, and its profile is in poolPowerCorrelation
C3_Witness ==
    /\ StoreLoaded
    /\ \E w \in DOMAIN balances :
          /\ balances[w].totalBalanceREG = S(500)
          /\ rawEntries(balances[w]) = <<[network |-> "gnosis", dex |-> "sushiswap",
                                          pos |-> SimplePos]>>
    /\ \E i \in DOMAIN poolPowerCorrelation :
          LET p == poolPowerCorrelation[i]
          IN  /\ p.walletREG = Num(500) /\ p.poolLiquidityREG = Num(500)
              /\ p.powerVoting = Num(2000)
              /\ p.boostMultiplier = [nan |-> FALSE, num |-> 4, den |-> 1]

\* the voting power recorded for a wallet address (case-insensitive), 0 if none
recordedPower(address) ==
    LET rows == SelectSeq(powerVoting,
                          LAMBDA r : toLowerCase(r.address) = toLowerCase(address))
    IN  IF rows = <<>> \/ ~IsNumeric(rows[Len(rows)].powerVoting) THEN 0
        ELSE rows[Len(rows)].powerVoting.v

\* sum of the amounts of the surviving positions of a wallet
survivingLiquidity(wallet) ==
    LET kept == SelectSeq(rawEntries(wallet), LAMBDA e : Surviving(e.pos))
    IN  SumNum([i \in DOMAIN kept |-> Num(kept[i].pos.equivalentREG.v)])

\* the wallets with at least one surviving position and a non-zero power, in
\* dataset order, as [address, poolLiquidityREG]
expectedCorrelation ==
    LET kept == SelectSeq(balances,
                          LAMBDA w : /\ \E i \in DOMAIN rawEntries(w) :
                                           Surviving(rawEntries(w)[i].pos)
                                     /\ recordedPower(w.walletAddress) # 0)
    IN  [i \in DOMAIN kept |->
            [address |-> kept[i].walletAddress,
             poolLiquidityREG |-> survivingLiquidity(kept[i])]]

\* C4: poolPowerCorrelation holds exactly the wallets with at least one surviving
\* position and a non-zero power, by descending poolLiquidityREG, wallets of equal
\* poolLiquidityREG in their dataset order.
C4_CorrelationMembersAndOrder ==
    powerVoting # <<>> =>
    LET actual == [i \in DOMAIN poolPowerCorrelation |->
                      [address |-> poolPowerCorrelation[i].address,
                       poolLiquidityREG |-> poolPowerCorrelation[i].poolLiquidityREG]]
        amounts == {actual[i].poolLiquidityREG : i \in DOMAIN actual}
                   \cup {expectedCorrelation[i].poolLiquidityREG : i \in DOMAIN expectedCorrelation}
    IN  /\ \A i, j \in DOMAIN actual :
              i < j => ~Gt(actual[j].poolLiquidityREG, actual[i].poolLiquidityREG)
        /\ \A a \in amounts :
              SelectSeq(actual, LAMBDA x : x.poolLiquidityREG = a)
                 = SelectSeq(expectedCorrelation, LAMBDA x : x.poolLiquidityREG = a)

\* the raw positions of the gnosis network of every wallet
gnosisEntries ==
    Flatten([w \in DOMAIN balances |->
                SelectSeq(rawEntries(balances[w]), LAMBDA e : e.network = "gnosis")])

\* the flat position lists of all wallets, one after the other
allFlatPositions ==
    Flatten([i \in DOMAIN addressPoolProfiles |-> addressPoolProfiles[i].positions])

\* C5: a raw position whose amount is <= 0 or is not a number contributes to no
\* flat position list or poolLiquidityREG, to no total or count of poolAnalysis,
\* to no distinct-pool count and to no pool breakdown of the tracker.
C5_DroppedPositionsContributeNothing ==
    /\ \A i \in DOMAIN addressPoolProfiles :
          LET profile == addressPoolProfiles[i]
          IN  /\ \A k \in DOMAIN profile.positions : Surviving(profile.positions[k])
              /\ Gt(profile.poolLiquidityREG, Num(0))
    /\ ~poolAnalysis.isNull =>
          LET kept == SelectSeq(gnosisEntries, LAMBDA e : Surviving(e.pos))
          IN  /\ poolAnalysis.v2.count + poolAnalysis.v3.count = Len(kept)
              /\ Add(poolAnalysis.v2.totalREG, poolAnalysis.v3.totalREG)
                    = SumNum([k \in DOMAIN kept |-> Num(kept[k].pos.equivalentREG.v)])
              /\ poolAnalysis.totalPools
                    = Cardinality({kept[k].pos.poolAddress : k \in DOMAIN kept})
              /\ DOMAIN poolAnalysis.v2.dexs \cup DOMAIN poolAnalysis.v3.dexs
                    = {kept[k].dex : k \in DOMAIN kept}
    /\ \A w \in DOMAIN balances :
          LET breakdown == analyzePoolPositions(balances[w])
              kept == SelectSeq(rawEntries(balances[w]), LAMBDA e : Surviving(e.pos))
          IN  ~breakdown.isNull =>
                 /\ breakdown.totalPools = Len(kept)
                 /\ breakdown.regInPools
                       = SumNum([k \in DOMAIN kept |-> Num(kept[k].pos.equivalentREG.v)])
                 /\ breakdown.v2Pools + breakdown.v3Pools = Len(kept)
                 /\ breakdown.poolsInRange + breakdown.poolsOutOfRange = Len(kept)

\* C6: the concentrated and simple totals and counts of poolAnalysis, and their
\* per-exchange sub-totals, are the sums and counts over the flat position lists of
\* all wallets on every network; totalPools is the number of distinct pool
\* identifiers among those positions.
C6_PoolAnalysisSumsFlatLists ==
    ~poolAnalysis.isNull =>
    LET ofKind(kind) == SelectSeq(allFlatPositions, LAMBDA p : p.poolType = kind)
        sumOf(s) == SumNum([k \in DOMAIN s |-> s[k].regAmount])
        agrees(stats, kind) ==
            /\ stats.count = Len(ofKind(kind))
            /\ stats.totalREG = sumOf(ofKind(kind))
            /\ DOMAIN stats.dexs = {ofKind(kind)[k].dex : k \in DOMAIN ofKind(kind)}
            /\ \A d \in DOMAIN stats.dexs :
                  stats.dexs[d] = sumOf(SelectSeq(ofKind(kind), LAMBDA p : p.dex = d))
    IN  /\ agrees(poolAnalysis.v2, "v2")
        /\ agrees(poolAnalysis.v3, "v3")
        /\ poolAnalysis.totalPools
              = Cardinality({allFlatPositions[k].poolAddress : k \in DOMAIN allFlatPositions})

\* the position passes the filter "regAmount <= 0" of the code: its amount is > 0
\* or is not a number
Counted(pos) == Surviving(pos) \/ pos.equivalentREG = Bad

AmountOf(pos) == IF IsNumeric(pos.equivalentREG) THEN Num(pos.equivalentREG.v) ELSE NaN

countedEntries(wallet) == SelectSeq(rawEntries(wallet), LAMBDA e : Counted(e.pos))

\* C7: a position is concentrated (v3) iff both price-range bounds are present on
\* the raw position, whatever their values, and simple (v2) otherwise; poolAnalysis,
\* addressPoolProfiles and analyzePoolPositions classify by this same rule.
C7_ClassificationByRange ==
    /\ LET flat == allFlatPositions
       IN  \A k \in DOMAIN flat :
              flat[k].poolType = IF HasRange(flat[k]) THEN "v3" ELSE "v2"
    /\ \A w \in DOMAIN balances :
          LET counted == countedEntries(balances[w])
              flat == walletPositions(balances[w])
              breakdown == analyzePoolPositions(balances[w])
          IN  /\ Count(flat, LAMBDA p : p.poolType = "v3")
                    = Count(counted, LAMBDA e : HasRange(e.pos))
              /\ Count(flat, LAMBDA p : p.poolType = "v2")
                    = Count(counted, LAMBDA e : ~HasRange(e.pos))
              /\ ~breakdown.isNull =>
                    /\ breakdown.v3Pools = Count(counted, LAMBDA e : HasRange(e.pos))
                    /\ breakdown.v2Pools = Count(counted, LAMBDA e : ~HasRange(e.pos))
    /\ ~poolAnalysis.isNull =>
          LET counted == SelectSeq(gnosisEntries, LAMBDA e : Counted(e.pos))
          IN  /\ poolAnalysis.v3.count = Count(counted, LAMBDA e : HasRange(e.pos))
              /\ poolAnalysis.v2.count = Count(counted, LAMBDA e : ~HasRange(e.pos))

\* C7 witness: a loaded wallet holds a position with equal bounds 0 and 0 that is
\* classified v3 and a position with a lower bound only that is classified v2
C7_Witness ==
    /\ rawBalancesData # Null
    /\ \E k \in DOMAIN allFlatPositions :
          /\ allFlatPositions[k].tickLower = N(0) /\ allFlatPositions[k].tickUpper = N(0)
          /\ allFlatPositions[k].poolType = "v3"
    /\ \E k \in DOMAIN allFlatPositions :
          /\ allFlatPositions[k].tickLower # Undef /\ allFlatPositions[k].tickUpper = Undef
          /\ allFlatPositions[k].poolType = "v2"
    /\ poolAnalysis.v3.count = 1 /\ poolAnalysis.v2.count = 1
    /\ analyzePoolPositions(balances[1]).v3Pools = 1
    /\ analyzePoolPositions(balances[1]).v2Pools = 1

\* C8: in the tracker's breakdown a concentrated position without isActive flag is
\* counted out of range, a concentrated position with a flag follows the flag, and
\* a simple position is counted in range whatever its flag; isPositionActive
\* reports a concentrated position active only when its flag is true.
C8_ActivityResolution ==
    /\ \A w \in DOMAIN balances :
          LET counted == countedEntries(balances[w])
              out == SelectSeq(counted, LAMBDA e : HasRange(e.pos) /\ e.pos.isActive # True)
              inside == SelectSeq(counted, LAMBDA e : ~HasRange(e.pos) \/ e.pos.isActive = True)
              breakdown == analyzePoolPositions(balances[w])
          IN  ~breakdown.isNull =>
                 /\ breakdown.poolsOutOfRange = Len(out)
                 /\ breakdown.poolsInRange = Len(inside)
                 /\ breakdown.regOutOfRange = SumNum([k \in DOMAIN out |-> AmountOf(out[k].pos)])
                 /\ breakdown.regInRange = SumNum([k \in DOMAIN inside |-> AmountOf(inside[k].pos)])
    /\ LET flat == allFlatPositions
       IN  \A k \in DOMAIN flat :
              HasRange(flat[k]) =>
                 /\ flat[k].isActive = Undef => isPositionActive(flat[k]) = "inactive"
                 /\ flat[k].isActive = False => isPositionActive(flat[k]) = "inactive"
                 /\ flat[k].isActive = True => isPositionActive(flat[k]) = "active"

\* C8 witness: a loaded wallet holds a concentrated position without flag, counted
\* out of range, and a simple position flagged inactive, counted in range
C8_Witness ==
    /\ rawBalancesData # Null
    /\ \E w \in DOMAIN balances :
          LET counted == countedEntries(balances[w])
              breakdown == analyzePoolPositions(balances[w])
          IN  /\ Len(counted) = 2
              /\ \E k \in DOMAIN counted :
                    HasRange(counted[k].pos) /\ counted[k].pos.isActive = Undef
              /\ \E k \in DOMAIN counted :
                    ~HasRange(counted[k].pos) /\ counted[k].pos.isActive = False
              /\ breakdown.poolsOutOfRange = 1 /\ breakdown.regOutOfRange = Num(300)
              /\ breakdown.poolsInRange = 1 /\ breakdown.regInRange = Num(500)

\* the unique (network, exchange) pairs with at least one surviving position
survivingExchanges(wallet) ==
    LET kept == SelectSeq(rawEntries(wallet), LAMBDA e : Surviving(e.pos))
    IN  {<<kept[k].network, kept[k].dex>> : k \in DOMAIN kept}

\* C9: the dexCount of a wallet's profile and the dexCount of its tracker breakdown
\* both equal the number of unique (network, exchange) pairs with at least one
\* surviving position; an exchange with an empty or entirely filtered list is not
\* counted.
C9_DistinctExchangeCount ==
    \A w \in DOMAIN balances :
        LET expected == Cardinality(survivingExchanges(balances[w]))
            breakdown == analyzePoolPositions(balances[w])
        IN  /\ hasProfile(balances[w]) => walletProfile(balances[w]).dexCount = expected
            /\ ~breakdown.isNull => breakdown.dexCount = expected

\* the amount of a balance row: the REG total when numeric, else the generic total
\* when numeric, else 0
resolvedAmount(row) ==
    IF IsNumeric(row.totalBalanceREG) THEN row.totalBalanceREG.v
    ELSE IF IsNumeric(row.totalBalance) THEN row.totalBalance.v
    ELSE 0

\* C10: the resolved amount of a balance row is totalBalanceREG whenever that field
\* is present and numeric (a numeric 0 included), totalBalance only when
\* totalBalanceREG is absent or non-numeric, and 0 when neither is a number.
C10_AmountResolution ==
    \A w \in DOMAIN balances :
        /\ hasProfile(balances[w]) =>
              walletProfile(balances[w]).walletREG = Num(resolvedAmount(balances[w]))
        /\ balanceAmount(balances[w]) = Num(resolvedAmount(balances[w]))

-----------------------------------------------------------------------------
(* Rows whose amount is not a number, and the statistics of a sample.      *)

\* neither amount field of the balance row holds a number, and one holds text
NonNumericBalance(row) ==
    /\ ~IsNumeric(row.totalBalanceREG) /\ ~IsNumeric(row.totalBalance)
    /\ Bad \in {row.totalBalanceREG, row.totalBalance}

NonNumericPower(row) == row.powerVoting = Bad

Smaller(a, b) == IF a < b THEN a ELSE b

\* C11: a balance or voting-power row whose amount field is non-numeric resolves
\* to amount 0 in balanceStats, powerVotingStats, the top-holder lists and the
\* wallet profiles, and is counted with value 0: no row is dropped, so the
\* statistics count every row and the top lists hold every row up to ten.
C11_NonNumericRowsCountAsZero ==
    /\ \A i \in DOMAIN balances :
          NonNumericBalance(balances[i]) =>
             /\ balanceAmount(balances[i]) = Num(0)
             /\ hasProfile(balances[i]) => walletProfile(balances[i]).walletREG = Num(0)
    /\ \A i \in DOMAIN powerVoting :
          NonNumericPower(powerVoting[i]) => powerAmount(powerVoting[i]) = Num(0)
    /\ Len(balances) > 0 =>
          /\ ~balanceStats.isNull
          /\ balanceStats.count = Len(balances)
          /\ Len(topBalanceHolders) = Smaller(Len(balances), TopCount)
    /\ Len(powerVoting) > 0 =>
          /\ ~powerVotingStats.isNull
          /\ powerVotingStats.count = Len(powerVoting)
          /\ Len(topPowerVoters) = Smaller(Len(powerVoting), TopCount)

\* the k-th smallest number of a sample, read off by counting
KthSmallest(sample, k) ==
    CHOOSE x \in {sample[i].v : i \in DOMAIN sample} :
        /\ Cardinality({i \in DOMAIN sample : sample[i].v < x}) < k
        /\ k <= Cardinality({i \in DOMAIN sample : sample[i].v <= x})

RECURSIVE SumOf(_)
SumOf(s) == IF s = <<>> THEN 0 ELSE Head(s).v + SumOf(Tail(s))

RECURSIVE SumOfSquares(_)
SumOfSquares(s) == IF s = <<>> THEN 0 ELSE Head(s).v * Head(s).v + SumOfSquares(Tail(s))

\* the statistics of a non-empty sample of numbers; the population variance is
\* (n * sum of squares - (sum)^2) / n^2
SampleStatistics(sample) ==
    LET n == Len(sample)
        half == n \div 2
    IN  [isNull |-> FALSE,
         count |-> n,
         total |-> Num(SumOf(sample)),
         mean |-> Ratio(SumOf(sample), n),
         median |-> IF n % 2 = 0
                    THEN Ratio(KthSmallest(sample, half) + KthSmallest(sample, half + 1), 2)
                    ELSE Ratio(KthSmallest(sample, half + 1), 1),
         min |-> Num(KthSmallest(sample, 1)),
         max |-> Num(KthSmallest(sample, n)),
         stdDev |-> MathSqrt(Ratio(n * SumOfSquares(sample) - SumOf(sample) * SumOf(sample),
                                   n * n))]

Exactly(k) == [surd |-> FALSE, num |-> k, den |-> 1]

\* C12: for every non-empty sample, balanceStats and powerVotingStats return its
\* count, total, mean = total / count, min, max, median (mean of the two central
\* elements of the sorted sample for even length, the central element for odd
\* length) and population standard deviation; a one-element sample has stdDev 0
\* and the sample {10, 30} gives total 40, mean 20, median 20, stdDev 10.
C12_SampleStatistics ==
    LET b == balanceStats
        p == powerVotingStats
    IN  /\ balanceStatsValues # <<>> =>
              /\ b = SampleStatistics(balanceStatsValues)
              /\ Len(balanceStatsValues) = 1 => b.stdDev = Exactly(0)
              /\ balanceStatsValues = <<Num(10), Num(30)>> =>
                    /\ b.total = Num(40) /\ b.mean = Ratio(20, 1)
                    /\ b.median = Ratio(20, 1) /\ b.stdDev = Exactly(10)
        /\ powerVotingStatsValues # <<>> =>
              /\ p = SampleStatistics(powerVotingStatsValues)
              /\ Len(powerVotingStatsValues) = 1 => p.stdDev = Exactly(0)

\* scenario D is loaded: the rows {10, 30} with their statistics
C12_Witness ==
    /\ balanceStatsValues = <<Num(10), Num(30)>>
    /\ balanceStats.mean = Ratio(20, 1)
    /\ balanceStats.stdDev = Exactly(10)

\* C13: with no balance rows loaded, balanceStats, balanceDistribution and
\* poolAnalysis are null and the balance lists (balances, topBalanceHolders,
\* addressPoolProfiles, poolPowerCorrelation) are empty; with no voting-power rows
\* loaded, powerVotingStats and powerVotingDistribution are null and powerVoting,
\* topPowerVoters and poolPowerCorrelation are empty.  A store holding no document,
\* as initially and after clearData, has neither kind of row.
C13_EmptyDataGivesNoStatistics ==
    /\ rawBalancesData = Null => balances = <<>>
    /\ rawPowerVotingData = Null => powerVoting = <<>>
    /\ balances = <<>> =>
          /\ balanceStats.isNull /\ balanceDistribution.isNull /\ poolAnalysis.isNull
          /\ topBalanceHolders = <<>> /\ addressPoolProfiles = <<>>
          /\ poolPowerCorrelation = <<>>
    /\ powerVoting = <<>> =>
          /\ powerVotingStats.isNull /\ powerVotingDistribution.isNull
          /\ topPowerVoters = <<>> /\ poolPowerCorrelation = <<>>

\* the store holds no document although both chosen files have rows
C13_Witness ==
    /\ rawBalancesData = Null /\ rawPowerVotingData = Null
    /\ rowsOf(balancesFile) # <<>> /\ rowsOf(powerVotingFile) # <<>>
    /\ balanceStats.isNull /\ powerVotingStats.isNull /\ poolAnalysis.isNull

-----------------------------------------------------------------------------
(* Distribution bins: [0,100), [100,500), [500,1000), [1000,5000),         *)
(* [5000,10000), [10000,inf).                                              *)

\* the lower bounds of the six bins; bin i ends where bin i + 1 starts
BinStarts == <<0, 100, 500, 1000, 5000, 10000>>

InInterval(v, i) ==
    /\ BinStarts[i] <= v
    /\ i < Len(BinStarts) => v < BinStarts[i + 1]

RECURSIVE SumCounts(_)
SumCounts(s) == IF s = <<>> THEN 0 ELSE Head(s).count + SumCounts(Tail(s))

BinsOf(distribution, values) ==
    ~distribution.isNull =>
        /\ Len(distribution.bins) = Len(BinStarts)
        /\ \A i \in DOMAIN BinStarts :
              distribution.bins[i].count
                 = Count(values, LAMBDA x : x.v > 0 /\ InInterval(x.v, i))
        /\ \A k \in DOMAIN values :
              values[k].v > 0 =>
                 Cardinality({i \in DOMAIN BinStarts : InInterval(values[k].v, i)}) = 1
        /\ SumCounts(distribution.bins) = Count(values, LAMBDA x : x.v > 0)

\* C14: in balanceDistribution and powerVotingDistribution values <= 0 are left
\* out, every value > 0 is counted in exactly one of the six bins, a value equal
\* to a bin's lower bound is counted in that bin, and the bin counts sum to the
\* number of values > 0.
C14_DistributionBinning ==
    /\ BinsOf(balanceDistribution, balanceStatsValues)
    /\ BinsOf(powerVotingDistribution, powerVotingStatsValues)

\* the rows 0 and 100: only 100 is counted, in the bin 100-500
C14_Witness ==
    /\ balanceStatsValues = <<Num(0), Num(100)>>
    /\ ~balanceDistribution.isNull
    /\ balanceDistribution.bins[1].count = 0
    /\ balanceDistribution.bins[2].count = 1
    /\ balanceDistribution.bins[2].label = "100-500"

-----------------------------------------------------------------------------
(* Top lists.                                                              *)

balanceItems ==
    [i \in DOMAIN balances |->
        [address |-> balances[i].walletAddress, amount |-> balanceAmount(balances[i])]]

powerItems ==
    [i \in DOMAIN powerVoting |->
        [address |-> powerVoting[i].address, amount |-> powerAmount(powerVoting[i])]]

Occurrences(s, x) == Cardinality({i \in DOMAIN s : s[i] = x})

\* top holds rows of items, at most ten, largest first, and leaves out no row
\* with a strictly larger amount than one it holds
IsTopOf(top, items) ==
    /\ Len(top) = Smaller(TopCount, Count(items, LAMBDA x : ~x.amount.nan))
    /\ \A k \in DOMAIN top : Occurrences(top, top[k]) <= Occurrences(items, top[k])
    /\ \A k \in 1..(Len(top) - 1) : top[k].amount.v >= top[k + 1].amount.v
    /\ \A i \in DOMAIN items :
          Occurrences(top, items[i]) < Occurrences(items, items[i]) =>
             \A k \in DOMAIN top : ~Gt(items[i].amount, top[k].amount)

\* C15: topBalanceHolders and topPowerVoters return at most 10 entries, in
\* non-increasing order of amount, and they are the rows with the largest amounts:
\* no row left out has a strictly larger amount than a returned row.
C15_TopTen ==
    /\ LET top == topBalanceHolders IN IsTopOf(top, balanceItems)
    /\ LET top == topPowerVoters IN IsTopOf(top, powerItems)

\* eleven rows, the largest amount on the last one: ten are returned, the last
\* row first, and a row of the smaller amount is left out
C15_Witness ==
    /\ Len(balances) = TopCount + 1
    /\ Len(topBalanceHolders) = TopCount
    /\ topBalanceHolders[1] = [address |-> "11", amount |-> Num(30)]
    /\ topBalanceHolders[TopCount].amount = Num(10)
    /\ \E i \in DOMAIN balanceItems :
          Occurrences(topBalanceHolders, balanceItems[i]) = 0

-----------------------------------------------------------------------------
(* Document shapes.                                                        *)

\* the row list a document stands for under the member name key: the list nested
\* under result, else the document itself when it is a list, else nothing
DocumentRows(doc, key) ==
    IF doc.shape = "wrapper" /\ doc.result[key].shape = "bare" THEN doc.result[key].rows
    ELSE IF doc.shape = "bare" THEN doc.rows
    ELSE <<>>

\* C16: a balances (voting-power) document that carries a result wrapper with the
\* balances (powerVoting) list yields that nested list as the store's rows, a bare
\* list yields itself, and any other value yields no rows; so a list gives the
\* same rows bare or wrapped.
C16_DocumentShapes ==
    /\ balances = DocumentRows(rawBalancesData, "balances")
    /\ powerVoting = DocumentRows(rawPowerVotingData, "powerVoting")

\* a wrapped balances document with one row next to a voting-power document that
\* is an object without rows
C16_Witness ==
    /\ rawBalancesData.shape = "wrapper"
    /\ Len(balances) = 1
    /\ rawPowerVotingData = Object
    /\ powerVoting = <<>>

-----------------------------------------------------------------------------
(* The address search.                                                     *)

\* the snapshot cannot be read: a file is not served or holds no document
LoadFails(snapshot) ==
    \/ Unavailable \in {snapshot.balancesFile, snapshot.powerVotingFile}
    \/ Null \in {snapshot.balancesFile, snapshot.powerVotingFile}

\* the number of snapshots the running or last search has handled
SnapshotsHandled ==
    IF searchAwaits = 0 THEN Len(availableSnapshots) ELSE searchAwaits - 1

\* the entry tells what the readable snapshot holds for the address: whether a
\* balance or voting-power row carries it, and the amounts of the first such rows
Populated(entry, snapshot, address) ==
    LET rowsB == SelectSeq(DocumentRows(snapshot.balancesFile, "balances"),
                           LAMBDA r : toLowerCase(r.walletAddress) = address)
        rowsP == SelectSeq(DocumentRows(snapshot.powerVotingFile, "powerVoting"),
                           LAMBDA r : toLowerCase(r.address) = address)
    IN  /\ entry.found = (rowsB # <<>> \/ rowsP # <<>>)
        /\ entry.reg = IF rowsB # <<>> THEN Num(resolvedAmount(rowsB[1])) ELSE Num(0)
        /\ entry.powerVoting
              = IF rowsP # <<>> /\ IsNumeric(rowsP[1].powerVoting)
                THEN Num(rowsP[1].powerVoting.v) ELSE Num(0)
        /\ entry.poolAnalysis.isNull
              = (rowsB = <<>> \/ countedEntries(rowsB[1]) = <<>>)
        /\ ~entry.poolAnalysis.isNull =>
              entry.poolAnalysis.totalPools = Len(countedEntries(rowsB[1]))

NotFound(entry) ==
    ~entry.found /\ entry.reg = Num(0) /\ entry.powerVoting = Num(0)

\* C17: in searchAddressAcrossSnapshots a snapshot whose load fails is recorded
\* as an entry for its date with found = false, reg 0 and power 0, and every other
\* snapshot handled so far has its own correctly populated entry: the list holds
\* the current entry and one entry per snapshot handled.
C17_FailedLoadIsRecorded ==
    addressSearchResults # <<>> =>
        /\ Len(addressSearchResults) = 1 + SnapshotsHandled
        /\ \A k \in 1..SnapshotsHandled :
              LET snapshot == availableSnapshots[k]
              IN  \E i \in DOMAIN addressSearchResults :
                     LET entry == addressSearchResults[i]
                     IN  /\ entry.date = snapshot.date /\ ~entry.isCurrent
                         /\ IF LoadFails(snapshot) THEN NotFound(entry)
                            ELSE Populated(entry, snapshot, addressToSearch)

\* a search has ended whose first snapshot failed to load and whose later
\* snapshot holds the address
C17_Witness ==
    /\ searchAwaits = 0
    /\ Len(availableSnapshots) >= 2
    /\ availableSnapshots[1].balancesFile = Unavailable
    /\ \E i, j \in DOMAIN addressSearchResults :
          /\ addressSearchResults[i].date = availableSnapshots[1].date
          /\ ~addressSearchResults[i].found
          /\ addressSearchResults[j].date = availableSnapshots[2].date
          /\ addressSearchResults[j].found
          /\ addressSearchResults[j].reg = Num(1000)

\* scenario E: the manifest lists three dates, the load of "01-01-2025" throws,
\* the two other snapshots are read, and a search has run to its end
ScenarioE ==
    /\ Len(availableSnapshots) = 3
    /\ \E k \in DOMAIN availableSnapshots :
          /\ availableSnapshots[k].date = "01-01-2025"
          /\ loadSnapshot(availableSnapshots[k]).threw
          /\ \A j \in DOMAIN availableSnapshots \ {k} : ~LoadFails(availableSnapshots[j])
    /\ searchAwaits = 0
    /\ addressSearchResults # <<>>

\* the entries of scenario E next to whatever else the list holds: the entry of
\* "01-01-2025" is marked not found and the two other dates are populated
ScenarioEntries ==
    \A k \in DOMAIN availableSnapshots :
        LET snapshot == availableSnapshots[k]
            entries == SelectSeq(addressSearchResults,
                                 LAMBDA e : ~e.isCurrent /\ e.date = snapshot.date)
        IN  /\ Len(entries) = 1
            /\ IF snapshot.date = "01-01-2025" THEN NotFound(entries[1])
               ELSE Populated(entries[1], snapshot, addressToSearch)

\* C18 as stated: in scenario E the result list of the address search holds
\* exactly 3 entries, the "01-01-2025" entry marked not found and the other two
\* correctly populated.
C18_ScenarioE_ThreeEntries ==
    ScenarioE => Len(addressSearchResults) = 3 /\ ScenarioEntries

\* C18 as amended: in scenario E the result list holds exactly 4 entries, the
\* entry of the current dataset followed by one entry per date: the
\* "01-01-2025" entry marked not found and the other two correctly populated.
C18_ScenarioE_FourEntries ==
    ScenarioE =>
        /\ Len(addressSearchResults) = 4
        /\ addressSearchResults[1].isCurrent
        /\ addressSearchResults[1].date = "Actuel"
        /\ ScenarioEntries

\* scenario E has run for an address that both other snapshots hold
C18_Witness ==
    /\ ScenarioE
    /\ Len(addressSearchResults) = 4
    /\ Len(SelectSeq(addressSearchResults, LAMBDA e : ~e.isCurrent /\ e.found)) = 2
    /\ \E i \in DOMAIN addressSearchResults :
          addressSearchResults[i].date = "01-01-2025" /\ ~addressSearchResults[i].found

\* the calendar day a date string names, as one number (year, month, day)
CalendarDay(date) ==
    CASE date = "01-01-2025" -> 20250101
      [] date = "31-12-2024" -> 20241231
      [] date = "15-03-2025" -> 20250315
      [] date = "02-01-2025" -> 20250102

SearchCompleted == searchAwaits = 0 /\ addressSearchResults # <<>>

\* C19: when a search completes, the result list has the entry of the current
\* dataset first, followed by the historical entries from the newest date to the
\* oldest, whatever the order in which the snapshots were listed and loaded.
C19_CurrentFirstThenNewestFirst ==
    SearchCompleted =>
        /\ addressSearchResults[1].isCurrent
        /\ \A i \in 2..Len(addressSearchResults) : ~addressSearchResults[i].isCurrent
        /\ \A i, j \in 2..Len(addressSearchResults) :
              i < j => CalendarDay(addressSearchResults[i].date)
                          >= CalendarDay(addressSearchResults[j].date)
        /\ {addressSearchResults[i].date : i \in 2..Len(addressSearchResults)}
              = {availableSnapshots[k].date : k \in DOMAIN availableSnapshots}

\* a manifest listed oldest first, the failing snapshot in the middle, and the
\* completed list newest first
C19_Witness ==
    /\ SearchCompleted
    /\ [k \in DOMAIN availableSnapshots |-> availableSnapshots[k].date]
          = <<"31-12-2024", "01-01-2025", "15-03-2025">>
    /\ [i \in DOMAIN addressSearchResults |-> addressSearchResults[i].date]
          = <<"Actuel", "15-03-2025", "01-01-2025", "31-12-2024">>

-----------------------------------------------------------------------------
(* The snapshot comparison.                                                *)

\* the snapshot table is complete: no load is awaited and the rows are in
StatsCompleted == statsAwaits = 0 /\ snapshotStats # <<>>

\* d is the raw difference x - y: it has the sign of the change, so it is
\* negative exactly when y is larger
RawDifference(d, x, y) == d = x - y /\ (d < 0 <=> y > x)

-----------------------------------------------------------------------------
(* Exceptions.                                                             *)

\* C21: whatever data-quality defects the rows have (no wallet address, no
\* sourceBalance, a position list that is no array or is empty, a null entry in
\* a position list, an unparsable or missing number, a balance row without a
\* power row and the reverse), poolAnalysis, addressPoolProfiles and
\* poolPowerCorrelation return a value: none of them throws. The stats, the
\* distributions and the top lists read only members of the rows themselves and
\* have no read that can throw on such rows.
C21_AggregatesNeverThrow ==
    /\ ~poolAnalysisThrows
    /\ ~addressPoolProfilesThrows
    /\ ~poolPowerCorrelationThrows

-----------------------------------------------------------------------------
(* The per-position multiplier.                                            *)

\* the [profile, position] pairs of the position table
TableCells ==
    LET profiles == poolPowerCorrelation
    IN  UNION {{[profile |-> profiles[i], position |-> profiles[i].positions[j]] :
                   j \in DOMAIN profiles[i].positions} : i \in DOMAIN profiles}

\* a per-position power can be derived for the wallet
PowerDerivable(profile) ==
    Gt(profile.poolLiquidityREG, Num(0)) /\ Gt(profile.poolVotingShare, Num(0))

\* a concentrated position known to be inactive
InactiveConcentrated(position) == position.poolType = "v3" /\ position.isActive = False

One == [nan |-> FALSE, num |-> 1, den |-> 1]

\* the quotient a / b of two numbers, b > 0
Quotient(a, b) ==
    LET g == GCD(a, b) IN [nan |-> FALSE, num |-> a \div g, den |-> b \div g]

\* C22: in the power-derived path (poolLiquidityREG > 0 and poolVotingShare > 0)
\* a concentrated position whose isActive is false gets a multiplier of exactly
\* 1.0, whatever the ratio of its apportioned power to its regAmount is.
C22_InactiveConcentratedIsOne ==
    \A c \in TableCells :
        PowerDerivable(c.profile) /\ InactiveConcentrated(c.position)
            => getPositionPowerAndMultiplier(c.position, c.profile).multiplier = One

\* an inactive concentrated position with derivable power whose apportioned
\* power is not its regAmount: the ratio is not 1, the multiplier is
C22_Witness ==
    \E c \in TableCells :
        /\ PowerDerivable(c.profile)
        /\ InactiveConcentrated(c.position)
        /\ LET r == getPositionPowerAndMultiplier(c.position, c.profile)
           IN  /\ r.multiplier = One
               /\ r.power # Quotient(c.position.regAmount.v, 1)
               /\ r.power.num > 0

\* the configured table of the fallback multiplier, in tenths; a concentrated
\* position is active when its flag is true, as isPositionActive has it
ConfiguredTenths(position) ==
    IF position.poolType = "v2"
    THEN CASE position.dex \in {"SushiSwap", "sushiswap"} -> 15
           [] position.dex = "honeyswap" -> 13
           [] position.dex \in {"balancer", "balancer-v2"} -> 14
           [] OTHER -> 15
    ELSE IF position.isActive = True THEN 25 ELSE 10

\* C23: estimatePositionMultiplier returns the configured value: 1.5, 1.3 and
\* 1.4 for simple positions of the three recognised exchanges, 1.5 for a simple
\* position of another exchange, 2.5 for an active concentrated position and
\* exactly 1.0 for an inactive concentrated position.
C23_FallbackTable ==
    \A c \in TableCells :
        estimatePositionMultiplier(c.position) = Quotient(ConfiguredTenths(c.position), 10)

\* C24: when no per-position power can be derived for a wallet (its
\* poolLiquidityREG is 0 or the power attributable to its pools is 0), the
\* multiplier returned for each of its positions is the static estimate of that
\* position, which is neither 0 nor undefined.
C24_FallbackWhenNoPower ==
    \A c \in TableCells :
        ~PowerDerivable(c.profile) /\ ~c.profile.poolLiquidityREG.nan
            => LET r == getPositionPowerAndMultiplier(c.position, c.profile)
               IN  /\ r.multiplier = estimatePositionMultiplier(c.position)
                   /\ r.multiplier.num # 0

\* the theoretical multipliers, in tenths
TheoreticalTenths == {1, 10, 13, 14, 15, 25}

\* twice the distance of x to the multiplier of t tenths, as a quotient's
\* numerator over the denominator 10 * x.den
Distance(x, t) ==
    LET d == 10 * x.num - t * x.den IN IF d < 0 THEN 0 - d ELSE d

\* m is x rounded as the position table rounds: the nearest theoretical value,
\* the smaller of two equally near, when it is within 0.5 of x; otherwise x
\* rounded to two decimals
RoundedAsShown(x, m) ==
    IF \E t \in TheoreticalTenths : Distance(x, t) <= 5 * x.den
    THEN \E t \in TheoreticalTenths :
            /\ m = Quotient(t, 10)
            /\ \A u \in TheoreticalTenths :
                  \/ Distance(x, t) < Distance(x, u)
                  \/ Distance(x, t) = Distance(x, u) /\ t <= u
    ELSE /\ 100 % m.den = 0
         /\ LET k == m.num * (100 \div m.den)
                e == 100 * x.num - k * x.den
            IN  -x.den < 2 * e /\ 2 * e <= x.den

\* the apportioning of C25: the position's power is the wallet's poolVotingShare
\* times the position's share of poolLiquidityREG, and the powers of the
\* positions of a wallet add up to its poolVotingShare
PowerApportioned(c) ==
    LET powerOf(position) == getPositionPowerAndMultiplier(position, c.profile).power
    IN  /\ powerOf(c.position) =
              Quotient(c.profile.poolVotingShare.v * c.position.regAmount.v,
                       c.profile.poolLiquidityREG.v)
        /\ SumRat([j \in DOMAIN c.profile.positions |-> powerOf(c.profile.positions[j])])
              = Quotient(c.profile.poolVotingShare.v, 1)

\* C25 as stated: with derivable power the position's power is apportioned from
\* poolVotingShare by the pool's share of poolLiquidityREG and the position's
\* share of its pool, and the multiplier of a position that is not an inactive
\* concentrated one equals positionPower / positionREG.
C25_MultiplierIsRatio ==
    \A c \in TableCells :
        PowerDerivable(c.profile) =>
            LET r == getPositionPowerAndMultiplier(c.position, c.profile)
            IN  /\ PowerApportioned(c)
                /\ ~InactiveConcentrated(c.position) =>
                      r.multiplier = Quotient(r.power.num,
                                              r.power.den * c.position.regAmount.v)

\* C25 amended: the same apportioning; the multiplier of a position that is not
\* an inactive concentrated one is positionPower / positionREG rounded: the
\* nearest of 0.1, 1.0, 1.3, 1.4, 1.5 and 2.5 when it is within 0.5 of the
\* ratio, otherwise the ratio rounded to two decimals.
C25_MultiplierIsRoundedRatio ==
    \A c \in TableCells :
        PowerDerivable(c.profile) =>
            LET r == getPositionPowerAndMultiplier(c.position, c.profile)
            IN  /\ PowerApportioned(c)
                /\ ~InactiveConcentrated(c.position) =>
                      RoundedAsShown(Quotient(r.power.num,
                                              r.power.den * c.position.regAmount.v),
                                     r.multiplier)

\* a wallet with two positions in different pools and derivable power, one
\* multiplier rounded to a theoretical value that is not the ratio, and a
\* wallet whose ratio is far from every theoretical value
C25_Witness ==
    \E c \in TableCells :
        /\ PowerDerivable(c.profile)
        /\ ~InactiveConcentrated(c.position)
        /\ Len(c.profile.positions) = 2
        /\ poolKeyOf(c.profile.positions[1]) # poolKeyOf(c.profile.positions[2])
        /\ LET r == getPositionPowerAndMultiplier(c.position, c.profile)
               ratio == Quotient(r.power.num, r.power.den * c.position.regAmount.v)
           IN  /\ r.multiplier # ratio
               /\ r.multiplier.den = 10


-----------------------------------------------------------------------------
(* The generation server.                                                  *)

\* the request was received and has no response yet
InFlight(r) == requests[r].pc # "idle" /\ requests[r].response = NoResponse

Answered(r) == requests[r].response # NoResponse

\* C26: every /api/generate request whose subprocess was spawned eventually
\* receives a response (on the timer's expiry, or when the subprocess closes or
\* errors)
C26_SpawnedIsAnswered ==
    \A r \in Requests : (requests[r].child # "none") ~> Answered(r)

\* C28: for each /api/generate request res.json is called at most once, under
\* every ordering of the subprocess 'error' event, its 'close' event and the
\* timer's expiry: a later event sends nothing
C28_AtMostOneResponse == \A r \in Requests : requests[r].jsonCalls <= 1

\* C30: once no /api/generate request is in flight, inquirer.ts holds its original
\* content, and inquirer.ts.backup never holds the mocked content
C30_InquirerRestored ==
    /\ backupFile # "mocked"
    /\ (\A r \in Requests : ~InFlight(r)) => inquirerFile = "original"


-----------------------------------------------------------------------------
(* The generation view.                                                    *)

\* no run of handleGenerate is under way
RunEnded == generationAwaits = ""

\* an invocation of the last run reported failure or threw
SomeFailure == \E t \in TaskNames : reports[t] \in {"failure", "threw"}

\* C27: in one run of handleGenerate each generator task is invoked at most once
\* (a failed invocation is never retried), and if any invocation reports failure
\* or throws, the run ends with a non-empty generationError and with isGenerating
\* back to false
C27_OneInvocationAndVisibleError ==
    /\ \A t \in TaskNames : invocations[t] <= 1
    /\ RunEnded => ~isGenerating
    /\ (RunEnded /\ SomeFailure) => generationError # ""

\* a run ended after CalculatePowerVotingREG failed and ClassementREG was still run
C27_Witness ==
    /\ RunEnded
    /\ reports["CalculatePowerVotingREG"] = "failure"
    /\ reports["ClassementREG"] = "success"
    /\ invocations["CalculatePowerVotingREG"] = 1


-----------------------------------------------------------------------------
(* Overlapping address searches.                                           *)

CurrentEntries == {i \in DOMAIN addressSearchResults : addressSearchResults[i].isCurrent}

\* no two entries of historical snapshots carry the same date
OneEntryPerDate ==
    \A i, j \in DOMAIN addressSearchResults :
        (/\ i # j
         /\ ~addressSearchResults[i].isCurrent
         /\ ~addressSearchResults[j].isCurrent)
        => addressSearchResults[i].date # addressSearchResults[j].date

\* C29: when an address search is started while an earlier one still loads
\* snapshots, the final result list holds exactly one entry for the current
\* dataset and at most one entry per historical date, and isSearchingAddress is
\* false only when no search is in progress
C29_OverlappingSearches ==
    /\ ~isSearchingAddress => runningSearches = <<>>
    /\ (runningSearches = <<>> /\ addressSearchResults # <<>>)
       => (Cardinality(CurrentEntries) = 1 /\ OneEntryPerDate)

====
